---------------------------- MODULE Spec2Model ----------------------------
(***************************************************************************)
(* A model of the schema consistency engine of auto-openspg-schema:        *)
(* SchemaManager (src/src/schema_manager.py), the dependency sequencer,    *)
(* the normalizer and the serializer of SchemaGenerator                    *)
(* (src/src/schema_generator.py), and the answer parser of LLMClient       *)
(* (src/src/llm_client.py).                                                *)
(*                                                                         *)
(* Text.  An entity key, a display name, a relation target, a property or  *)
(* relation key is a TLA+ string; Chars gives the characters of each       *)
(* string of the model, and lower(), replace(), strip(), `in` and len()    *)
(* are computed on those characters.  A description is kept as its         *)
(* sequence of characters.  Python's None is the value None.               *)
(*                                                                         *)
(* Dicts.  A Python dict whose order the code can observe (the entity map, *)
(* a properties map, a relations map) is a sequence of [k, v] items in     *)
(* insertion order.  A property or relation definition (a dict of          *)
(* sub-fields) is a function from the sub-field names it holds.  A value   *)
(* that may be a str or a dict is tagged: [t |-> "str", s |-> ...] or      *)
(* [t |-> "dict", d |-> ...].                                              *)
(*                                                                         *)
(* The manager keeps no clock: every timestamp an export writes reads the   *)
(* same.  The modification log is left out: no operation modelled here     *)
(* reads it.                                                               *)
(***************************************************************************)
EXTENDS Integers, Sequences, FiniteSets, TLC

None == "<None>"

-----------------------------------------------------------------------------
(* Characters and strings *)

\* The characters of the strings of the model.  A Chinese character is one
\* element, written as its pinyin ("zi4" is U+81EA).
Chars(s) ==
  CASE s = ""       -> <<>>
    [] s = " "      -> <<" ">>
    [] s = "Abab"   -> <<"A", "b", "a", "b">>
    [] s = "a_bab"  -> <<"a", "_", "b", "a", "b">>
    [] s = "Ababb"  -> <<"A", "b", "a", "b", "b">>
    [] s = "babb"   -> <<"b", "a", "b", "b">>
    [] s = "Ba"     -> <<"B", "a">>
    [] s = "Unk"    -> <<"U", "n", "k">>
    [] s = "dX"     -> <<"d", "X">>
    [] s = "r1"     -> <<"r", "1">>
    [] s = "r2"     -> <<"r", "2">>
    [] s = "n1"     -> <<"n", "1">>
    [] s = "n2"     -> <<"n", "2">>
    [] s = "desc"   -> <<"d", "e", "s", "c">>
    [] s = "name"   -> <<"n", "a", "m", "e">>
    [] s = "color"  -> <<"c", "o", "l", "o", "r">>
    [] s = "size"   -> <<"s", "i", "z", "e">>
    [] s = "fileName" -> <<"f", "i", "l", "e", "N", "a", "m", "e">>
    [] s = "description" -> <<"d", "e", "s", "c", "r", "i", "p", "t", "i", "o", "n">>
    [] s = "miao2shu4" -> <<"miao2", "shu4">>
    [] s = "ming2cheng1" -> <<"ming2", "cheng1">>
    [] s = "entities" -> <<"e", "n", "t", "i", "t", "i", "e", "s">>
    [] s = "namespace" -> <<"n", "a", "m", "e", "s", "p", "a", "c", "e">>

\* str.lower() on one character
Lower(cs) ==
  LET LowerChar(c) ==
        CASE c = "A" -> "a"
          [] c = "B" -> "b"
          [] c = "D" -> "d"
          [] c = "N" -> "n"
          [] c = "U" -> "u"
          [] c = "X" -> "x"
          [] OTHER -> c
  IN [i \in 1..Len(cs) |-> LowerChar(cs[i])]

\* str.replace(c, '') for a single character c
Remove(cs, c) == SelectSeq(cs, LAMBDA x : x # c)

IsSpace(c) == c \in {" ", "\t", "\n"}

\* needle in hay (substring)
IsSubstr(needle, hay) ==
  \E i \in 0..(Len(hay) - Len(needle)) :
     \A j \in 1..Len(needle) : hay[i + j] = needle[j]

\* str.split(): the set of the whitespace-separated words
RECURSIVE SplitFrom(_, _, _)
SplitFrom(cs, i, cur) ==
  IF i > Len(cs) THEN (IF cur = <<>> THEN {} ELSE {cur})
  ELSE IF IsSpace(cs[i])
       THEN (IF cur = <<>> THEN {} ELSE {cur}) \cup SplitFrom(cs, i + 1, <<>>)
       ELSE SplitFrom(cs, i + 1, Append(cur, cs[i]))

-----------------------------------------------------------------------------
(* Ordered dicts: sequences of [k, v] items in insertion order *)

KeySeq(d) == [i \in 1..Len(d) |-> d[i].k]

KeySet(d) == {d[i].k : i \in 1..Len(d)}

Has(d, k) == \E i \in 1..Len(d) : d[i].k = k

Idx(d, k) == CHOOSE i \in 1..Len(d) : d[i].k = k

Get(d, k) == d[Idx(d, k)].v

\* d[k] = v : an existing key keeps its place, a new key goes last
Put(d, k, v) ==
  IF Has(d, k) THEN [d EXCEPT ![Idx(d, k)] = [k |-> k, v |-> v]]
  ELSE Append(d, [k |-> k, v |-> v])

\* d.update(d2)
RECURSIVE Update(_, _)
Update(d, d2) ==
  IF d2 = <<>> THEN d
  ELSE Update(Put(d, Head(d2).k, Head(d2).v), Tail(d2))

\* The dict as a mapping, its order forgotten (Python's == on dicts)
AsMap(d) == [k \in KeySet(d) |-> Get(d, k)]

-----------------------------------------------------------------------------
(* SchemaManager._build_standard_properties *)

\* prop_name.lower().replace(' ', '').replace('(', '').replace(')', '')
PropLower(p) == Remove(Remove(Remove(Lower(Chars(p)), " "), "("), ")")

IsDescName(p) ==
  \/ IsSubstr(Chars("desc"), PropLower(p))
  \/ IsSubstr(Chars("description"), PropLower(p))
  \/ IsSubstr(Chars("miao2shu4"), Chars(p))

IsNameName(p) ==
  \/ IsSubstr(Chars("name"), PropLower(p))
  \/ IsSubstr(Chars("ming2cheng1"), Chars(p))

HasField(v, f) == v.t = "dict" /\ f \in DOMAIN v.d

\* The custom properties as _build_standard_properties stores them (lines
\* 734-757); SelfLabel is f"{prop_name}({prop_name})" for the names of the model
RECURSIVE StdCustoms(_)
StdCustoms(custom) ==
  IF custom = <<>> THEN <<>>
  ELSE LET p == Head(custom).k
           v == Head(custom).v
           rest == StdCustoms(Tail(custom))
           SelfLabel ==
             CASE p = "color"    -> "color(color)"
               [] p = "size"     -> "size(size)"
               [] p = "fileName" -> "fileName(fileName)"
               [] p = "desc"     -> "desc(desc)"
               [] OTHER          -> "p(p)"
           StdCustom ==
             IF HasField(v, "name") /\ HasField(v, "type")
             THEN [name |-> v.d.name, type |-> v.d.type,
                   constraint |-> IF "constraint" \in DOMAIN v.d THEN v.d.constraint
                                  ELSE "NotNull"]
             ELSE IF IsSubstr(<<"(">>, Chars(p)) /\ IsSubstr(<<")">>, Chars(p))
                  THEN [name |-> p, type |-> "Text", constraint |-> "NotNull"]
                  ELSE [name |-> SelfLabel, type |-> "Text", constraint |-> "NotNull"]
       IN IF IsDescName(p) \/ IsNameName(p) THEN rest
          ELSE <<[k |-> p, v |-> [t |-> "dict", d |-> StdCustom]]>> \o rest

\* The loop of lines 702-708 is if/elif: a name that holds 'desc' never sets has_name
BuildStandardProperties(custom) ==
  LET has_desc == \E i \in 1..Len(custom) : IsDescName(custom[i].k)
      has_name == \E i \in 1..Len(custom) :
                     ~IsDescName(custom[i].k) /\ IsNameName(custom[i].k)
      StdDesc == [name |-> "desc(miao2shu4)", type |-> "Text", constraint |-> "NotNull"]
      StdName == [name |-> "name(ming2cheng1)", type |-> "Text", constraint |-> "NotNull"]
      std == (IF has_desc THEN <<>> ELSE <<[k |-> "desc", v |-> [t |-> "dict", d |-> StdDesc]]>>)
             \o (IF has_name THEN <<>> ELSE <<[k |-> "name", v |-> [t |-> "dict", d |-> StdName]]>>)
  IN Update(std, StdCustoms(custom))

-----------------------------------------------------------------------------
(* SchemaManager._determine_entity_type *)

\* type_keywords, in the order the dict is written (lines 767-777)
TypeKeywords ==
  << [type |-> "Person", words |-> << <<"ren2", "yuan2">>, <<"ren2", "wu4">>,
        <<"gong1", "cheng2", "shi1">>, <<"she4", "ji4", "shi1">>, <<"zhuan1", "jia1">>,
        <<"fu4", "ze2", "ren2">> >>],
     [type |-> "Organization", words |-> << <<"gong1si", "si1">>, <<"zu3", "zhi1">>,
        <<"ji1", "gou4">>, <<"bu4", "men2">>, <<"tuan2", "dui4">>, <<"dan1", "wei4">> >>],
     [type |-> "Building", words |-> << <<"jian4", "zhu4">>, <<"fang2", "wu1">>,
        <<"chang3", "fang2">>, <<"che1", "jian1">>, <<"ban4", "gong1si", "lou2">>,
        <<"jie2", "gou4">> >>],
     [type |-> "ArtificialObject", words |-> << <<"she4", "bei4">>, <<"ji1", "qi4">>,
        <<"gong1", "ju4">>, <<"yi2", "qi4">>, <<"zhuang1", "zhi4">>, <<"xi4", "tong3">>,
        <<"zu3", "jian4jian">> >>],
     [type |-> "GeographicLocation", words |-> << <<"di4", "dian3">>, <<"wei4", "zhi4">>,
        <<"qu1", "yu4">>, <<"chang3suo", "suo3">>, <<"di4", "zhi3">>, <<"zuo4", "biao1">> >>],
     [type |-> "Date", words |-> << <<"shi2", "jian1">>, <<"ri4", "qi1">>, <<"qi1", "xian4">>,
        <<"zhou1", "qi1">>, <<"jie1", "duan4">> >>],
     [type |-> "Event", words |-> << <<"shi4", "jian4jian">>, <<"huo2", "dong4">>,
        <<"hui4", "yi4">>, <<"jian3", "cha2">>, <<"ce4", "shi4shi">>, <<"yan4", "shou1">> >>],
     [type |-> "Works", words |-> << <<"wen2", "dang4">>, <<"tu2", "zhi3zhi">>,
        <<"biao1", "zhun3">>, <<"gui1", "fan4">>, <<"shou3", "ce4ce">>, <<"bao4", "gao4">> >>],
     [type |-> "Concept", words |-> << <<"gai4", "nian4">>, <<"li3", "lun4">>,
        <<"fang1", "fa3">>, <<"ji4shu", "shu4shu">>, <<"gong1", "yi4yi">>, <<"liu2", "cheng2">> >>] >>

\* The first type, in dict order, one of whose keywords is in the text
DetermineEntityType(entity_name, description) ==
  LET text == Lower(Chars(entity_name) \o <<" ">> \o description)
      hit(i) == \E j \in 1..Len(TypeKeywords[i].words) :
                   IsSubstr(TypeKeywords[i].words[j], text)
      KeywordHeads ==
        UNION {{TypeKeywords[i].words[j][1] : j \in 1..Len(TypeKeywords[i].words)} :
                 i \in 1..Len(TypeKeywords)}
  IN IF {text[i] : i \in 1..Len(text)} \cap KeywordHeads = {} THEN "Others"
     ELSE IF \E i \in 1..Len(TypeKeywords) : hit(i)
          THEN TypeKeywords[CHOOSE i \in 1..Len(TypeKeywords) :
                               hit(i) /\ \A h \in 1..(i - 1) : ~hit(h)].type
          ELSE "Others"

-----------------------------------------------------------------------------
(* SchemaManager.add_or_update_entity *)

\* Python truthiness of an optional string argument
Truthy(x) == x # None /\ x # ""

\* `properties and any(isinstance(v, dict) and 'name' in v for v in properties.values())`
IsFullDefinition(properties) ==
  \E i \in 1..Len(properties) : HasField(properties[i].v, "name")

\* An entity whose name field takes the display name when one is given
NewEntity_NamedByDisplay(a) ==
  LET final_openspg_type ==
        IF Truthy(a.openspg_type) THEN a.openspg_type
        ELSE IF Truthy(a.entity_type) THEN a.entity_type ELSE "EntityType"
      final_properties ==
        IF final_openspg_type = "ConceptType" THEN a.properties
        ELSE IF IsFullDefinition(a.properties) THEN a.properties
             ELSE BuildStandardProperties(a.properties)
  IN [name          |-> IF Truthy(a.chinese_name) THEN a.chinese_name ELSE a.entity_name,
      chinese_name  |-> IF Truthy(a.chinese_name) THEN a.chinese_name ELSE a.entity_name,
      description   |-> a.description,
      type          |-> IF Truthy(a.entity_type) THEN a.entity_type
                        ELSE DetermineEntityType(a.entity_name, a.description),
      openspg_type  |-> final_openspg_type,
      properties    |-> final_properties,
      relations     |-> a.relations,
      english_name  |-> None,
      entity_type   |-> None,
      auto_created  |-> FALSE]

\* The arguments of one call; properties and relations are ordered dicts
\* (None or {} is <<>>), chinese_name, openspg_type and entity_type may be None.
NewEntity(a) ==
  LET final_openspg_type ==
        IF Truthy(a.openspg_type) THEN a.openspg_type
        ELSE IF Truthy(a.entity_type) THEN a.entity_type ELSE "EntityType"
      final_properties ==
        IF final_openspg_type = "ConceptType" THEN a.properties
        ELSE IF IsFullDefinition(a.properties) THEN a.properties
             ELSE BuildStandardProperties(a.properties)
  IN [name          |-> a.entity_name,
      chinese_name  |-> IF Truthy(a.chinese_name) THEN a.chinese_name ELSE a.entity_name,
      description   |-> a.description,
      type          |-> IF Truthy(a.entity_type) THEN a.entity_type
                        ELSE DetermineEntityType(a.entity_name, a.description),
      openspg_type  |-> final_openspg_type,
      properties    |-> final_properties,
      relations     |-> a.relations,
      english_name  |-> None,
      entity_type   |-> None,
      auto_created  |-> FALSE]

UpdatedEntity(old, a) ==
  LET merged_properties ==
        IF IsFullDefinition(a.properties) THEN a.properties
        ELSE Update(old.properties, BuildStandardProperties(a.properties))
      merged_relations == Update(old.relations, a.relations)
  IN [old EXCEPT
        !.description  = a.description,
        !.properties   = merged_properties,
        !.relations    = merged_relations,
        !.chinese_name = IF Truthy(a.chinese_name) THEN a.chinese_name ELSE @,
        !.openspg_type = IF Truthy(a.openspg_type) THEN a.openspg_type ELSE @,
        !.type         = IF Truthy(a.entity_type) THEN a.entity_type ELSE @]

\* The entity map after add_or_update_entity(a)
AddOrUpdateEntity(ents, a) ==
  IF Has(ents, a.entity_name)
  THEN Put(ents, a.entity_name, UpdatedEntity(Get(ents, a.entity_name), a))
  ELSE Put(ents, a.entity_name, NewEntity(a))

-----------------------------------------------------------------------------
(* SchemaManager._are_entities_similar, _group_similar_entities *)

RECURSIVE LStrip(_)
LStrip(cs) == IF cs # <<>> /\ IsSpace(Head(cs)) THEN LStrip(Tail(cs)) ELSE cs

RECURSIVE RStrip(_)
RStrip(cs) ==
  IF cs # <<>> /\ IsSpace(cs[Len(cs)]) THEN RStrip(SubSeq(cs, 1, Len(cs) - 1)) ELSE cs

\* Word overlap of two descriptions above 70 % (lines 228-239)
DescSimilar(d1, d2) ==
  LET desc1 == Lower(d1)
      desc2 == Lower(d2)
      words1 == SplitFrom(desc1, 1, <<>>)
      words2 == SplitFrom(desc2, 1, <<>>)
  IN /\ Len(desc1) > 10 /\ Len(desc2) > 10
     /\ words1 # {} /\ words2 # {}
     /\ Cardinality(words1 \cap words2) * 10 > 7 * Cardinality(words1 \cup words2)

AreEntitiesSimilar(ents, entity1, entity2) ==
  LET e1 == Get(ents, entity1)
      e2 == Get(ents, entity2)
      \* entity_name.lower().replace('_', '').replace('-', '')
      NormName(k) == Remove(Remove(Lower(Chars(k)), "_"), "-")
      name1 == NormName(entity1)
      name2 == NormName(entity2)
      \* chinese_name.strip()
      chinese1 == RStrip(LStrip(Chars(e1.chinese_name)))
      chinese2 == RStrip(LStrip(Chars(e2.chinese_name)))
  IN \/ name1 = name2
     \/ chinese1 # <<>> /\ chinese2 # <<>> /\ chinese1 = chinese2
     \/ Len(name1) > 3 /\ Len(name2) > 3 /\ (IsSubstr(name1, name2) \/ IsSubstr(name2, name1))
     \/ DescSimilar(e1.description, e2.description)

\* The inner loop of _group_similar_entities: the keys after the seed's scan
\* position are all keys; `done` is the processed set
RECURSIVE GroupOf(_, _, _, _)
GroupOf(ents, seed, others, done) ==
  IF others = <<>> THEN <<>>
  ELSE LET o == Head(others)
       IN IF o # seed /\ o \notin done /\ AreEntitiesSimilar(ents, seed, o)
          THEN <<o>> \o GroupOf(ents, seed, Tail(others), done \cup {o})
          ELSE GroupOf(ents, seed, Tail(others), done)

RECURSIVE GroupsFrom(_, _, _)
GroupsFrom(ents, todo, done) ==
  IF todo = <<>> THEN <<>>
  ELSE LET seed == Head(todo)
       IN IF seed \in done THEN GroupsFrom(ents, Tail(todo), done)
          ELSE LET group == <<seed>> \o GroupOf(ents, seed, KeySeq(ents), done \cup {seed})
                   done2 == done \cup {group[i] : i \in 1..Len(group)}
               IN (IF Len(group) > 1 THEN <<group>> ELSE <<>>)
                  \o GroupsFrom(ents, Tail(todo), done2)

\* _group_similar_entities: the groups of two or more keys, in order
GroupSimilarEntities(ents) == GroupsFrom(ents, KeySeq(ents), {})

-----------------------------------------------------------------------------
(* SchemaManager._select_primary_entity *)

Score(ents, entity_name) ==
  LET entity == Get(ents, entity_name)
      desc == entity.description
      Max(a, b) == IF a > b THEN a ELSE b
      Min(a, b) == IF a < b THEN a ELSE b
      \* str.isalnum(): non-empty, every character a letter or a digit
      IsAlnum(cs) ==
        /\ Len(cs) > 0
        /\ \A i \in 1..Len(cs) : cs[i] \notin {"_", "-", " ", "\t", "\n", "(", ")", ":"}
  IN Max(0, 50 - Len(Chars(entity_name)))
     + (IF Len(desc) > 20 THEN 20 ELSE IF Len(desc) > 10 THEN 10 ELSE 0)
     + (IF Truthy(entity.chinese_name) THEN 15 ELSE 0)
     + Min(Len(entity.properties) * 5, 25)
     + Min(Len(entity.relations) * 3, 15)
     + (IF IsAlnum(Remove(Remove(Chars(entity_name), "_"), "-")) THEN 10 ELSE 0)

\* A selection that takes the last of the highest scores
SelectPrimaryEntity_LastOfTies(ents, group) ==
  group[CHOOSE i \in 1..Len(group) :
          /\ \A j \in 1..Len(group) : Score(ents, group[j]) <= Score(ents, group[i])
          /\ \A j \in (i + 1)..Len(group) : Score(ents, group[j]) < Score(ents, group[i])]

\* list.sort(key=score, reverse=True) is stable: the first of the highest scores
SelectPrimaryEntity(ents, group) ==
  group[CHOOSE i \in 1..Len(group) :
          /\ \A j \in 1..Len(group) : Score(ents, group[j]) <= Score(ents, group[i])
          /\ \A j \in 1..(i - 1) : Score(ents, group[j]) < Score(ents, group[i])]

-----------------------------------------------------------------------------
(* SchemaManager._merge_entity_data, merge_and_remove_duplicate_entities *)

\* One entity's properties (or relations) folded into the merged dict.
\* Backfill is lines 307-309, 320-322: sub-fields the existing definition lacks
\* or holds empty (Falsy is `not v`) are taken from the later definition.
RECURSIVE MergeDict(_, _)
MergeDict(merged, d) ==
  IF d = <<>> THEN merged
  ELSE LET key == Head(d).k
           value == Head(d).v
           Falsy(f, v) == IF f = "aliases" THEN v = <<>> ELSE v \in {"", None}
           Backfill(existing, later) ==
             [f \in DOMAIN existing \cup DOMAIN later |->
                IF f \in DOMAIN later /\ (f \notin DOMAIN existing \/ Falsy(f, existing[f]))
                THEN later[f] ELSE existing[f]]
           next == IF ~Has(merged, key) THEN Put(merged, key, value)
                   ELSE IF value.t = "dict" /\ Get(merged, key).t = "dict"
                        THEN Put(merged, key,
                                 [t |-> "dict", d |-> Backfill(Get(merged, key).d, value.d)])
                        ELSE merged
       IN MergeDict(next, Tail(d))

RECURSIVE MergeAll(_, _, _, _)
MergeAll(ents, names, field, merged) ==
  IF names = <<>> THEN merged
  ELSE MergeAll(ents, Tail(names), field,
                MergeDict(merged, IF field = "properties"
                                  THEN Get(ents, Head(names)).properties
                                  ELSE Get(ents, Head(names)).relations))

\* _merge_entity_data.  The merged dicts hold the entities' own definition
\* objects, so the back-fill of a key the primary already has changes the
\* primary's definition in place; `new` is what the method returns.
MergeEntityData(ents, primary_entity, duplicate_entities) ==
  LET all_entities == <<primary_entity>> \o duplicate_entities
      merged_properties == MergeAll(ents, all_entities, "properties", <<>>)
      merged_relations == MergeAll(ents, all_entities, "relations", <<>>)
      primary == Get(ents, primary_entity)
  IN [merged_properties |-> merged_properties,
      merged_relations  |-> merged_relations,
      new_properties    |-> SelectSeq(merged_properties,
                                      LAMBDA e : ~Has(primary.properties, e.k)),
      new_relations     |-> SelectSeq(merged_relations,
                                      LAMBDA e : ~Has(primary.relations, e.k))]

RECURSIVE DelAll(_, _)
DelAll(ents, names) ==
  IF names = <<>> THEN ents ELSE DelAll(SelectSeq(ents, LAMBDA e : e.k # Head(names)), Tail(names))

\* A merge that removes the duplicates and leaves the primary as it was
MergeGroup_KeepPrimary(ents, group) ==
  LET primary_entity == SelectPrimaryEntity(ents, group)
      duplicates == SelectSeq(group, LAMBDA e : e # primary_entity)
  IN [entities |-> DelAll(ents, duplicates),
      primary |-> primary_entity,
      removed |-> duplicates]

\* A merge that adds the new keys and leaves the primary's own definitions as
\* they were
MergeGroup_NoBackfill(ents, group) ==
  LET primary_entity == SelectPrimaryEntity(ents, group)
      duplicates == SelectSeq(group, LAMBDA e : e # primary_entity)
      data == MergeEntityData(ents, primary_entity, duplicates)
      primary == Get(ents, primary_entity)
      merged == [primary EXCEPT
                   !.properties = Update(primary.properties, data.new_properties),
                   !.relations = Update(primary.relations, data.new_relations)]
  IN [entities |-> DelAll(Put(ents, primary_entity, merged), duplicates),
      primary |-> primary_entity,
      removed |-> duplicates]

\* The body of the loop of merge_and_remove_duplicate_entities for one group
MergeGroup(ents, group) ==
  LET primary_entity == SelectPrimaryEntity(ents, group)
      duplicates == SelectSeq(group, LAMBDA e : e # primary_entity)
      data == MergeEntityData(ents, primary_entity, duplicates)
      primary == Get(ents, primary_entity)
      \* the in-place back-fill, then lines 152-153
      merged == [primary EXCEPT
                   !.properties = Update(SelectSeq(data.merged_properties,
                                                   LAMBDA e : Has(primary.properties, e.k)),
                                         data.new_properties),
                   !.relations = Update(SelectSeq(data.merged_relations,
                                                  LAMBDA e : Has(primary.relations, e.k)),
                                        data.new_relations)]
  IN [entities |-> DelAll(Put(ents, primary_entity, merged), duplicates),
      primary |-> primary_entity,
      removed |-> duplicates]

RECURSIVE MergeGroups(_, _, _)
MergeGroups(ents, groups, removed) ==
  IF groups = <<>> THEN [entities |-> ents, removed_entities |-> removed]
  ELSE LET r == MergeGroup(ents, Head(groups))
       IN MergeGroups(r.entities, Tail(groups), removed \o r.removed)

\* A pass whose total_removed counts the groups merged, not the keys deleted
MergeAndRemoveDuplicateEntities_Miscount(ents) ==
  LET r == MergeGroups(ents, GroupSimilarEntities(ents), <<>>)
  IN [entities |-> r.entities,
      removed_entities |-> r.removed_entities,
      total_removed |-> Len(GroupSimilarEntities(ents))]

\* merge_and_remove_duplicate_entities: the entity map it leaves and its result
MergeAndRemoveDuplicateEntities(ents) ==
  LET r == MergeGroups(ents, GroupSimilarEntities(ents), <<>>)
  IN [entities |-> r.entities,
      removed_entities |-> r.removed_entities,
      total_removed |-> Len(r.removed_entities)]

-----------------------------------------------------------------------------
(* SchemaManager._create_missing_entity *)

\* A stub registered as if it had been ingested: no auto_created flag
StubEntity_AsIngested(entity_name) ==
  [name          |-> entity_name,
   chinese_name  |-> entity_name,
   description   |-> Chars(entity_name),
   type          |-> "Others",
   openspg_type  |-> "EntityType",
   properties    |-> BuildStandardProperties(<<>>),
   relations     |-> <<>>,
   english_name  |-> None,
   entity_type   |-> None,
   auto_created  |-> FALSE]

\* The description begins with the characters of the prefix of line 667
\* (U+81EA U+52A8 U+521B U+5EFA U+7684 U+5B9E U+4F53 U+FF1A)
StubEntity(entity_name) ==
  [name          |-> entity_name,
   chinese_name  |-> entity_name,
   description   |-> <<"zi4", "dong4", "chuang4", "jian4", "de5", "shi2shi", "ti3", "colon_fw">>
                       \o Chars(entity_name),
   type          |-> None,
   openspg_type  |-> "EntityType",
   properties    |-> BuildStandardProperties(<<>>),
   relations     |-> <<>>,
   english_name  |-> entity_name,
   entity_type   |-> "Concept",
   auto_created  |-> TRUE]

\* A validator that notes the missing target and registers no entity for it
CreateMissingEntity_NoStub(ents, entity_name) == ents

CreateMissingEntity(ents, entity_name) == Put(ents, entity_name, StubEntity(entity_name))

-----------------------------------------------------------------------------
(* SchemaManager.validate_and_update_relations *)

\* lines 479-488: display name -> name, a later entity overwriting an earlier one
RECURSIVE ChineseToEnglish(_, _)
ChineseToEnglish(ents, map) ==
  IF ents = <<>> THEN map
  ELSE LET e == Head(ents).v
       IN ChineseToEnglish(Tail(ents),
            IF Truthy(e.chinese_name) /\ Truthy(e.name)
            THEN Put(map, e.chinese_name, e.name) ELSE map)

\* `target is None or not isinstance(target, str) or not target.strip()`
InvalidTarget(target) ==
  target = None \/ \A i \in 1..Len(Chars(target)) : IsSpace(Chars(target)[i])

\* target_to_relations[target].append(relation_key)
NoteTarget(t2r, target, relation_key) ==
  IF Has(t2r, target) THEN Put(t2r, target, Append(Get(t2r, target), relation_key))
  ELSE Put(t2r, target, <<relation_key>>)

\* A validator that stores every target as it finds it
ValidateRelation_NoRewrite(st, c2e, relation_key, relation_def) ==
  LET record == HasField(relation_def, "target")
      target == IF record THEN relation_def.d.target
                ELSE IF relation_def.t = "str" THEN relation_def.s ELSE None
  IN IF InvalidTarget(target) THEN st
     ELSE LET known == Has(c2e, target)
              missing == ~known /\ target \notin st.english_names
              stored == IF record THEN relation_def
                        ELSE [t |-> "dict", d |-> [name |-> relation_key, target |-> target]]
          IN [entities |-> IF missing THEN CreateMissingEntity(st.entities, target)
                           ELSE st.entities,
              english_names |-> IF missing THEN st.english_names \cup {target}
                                ELSE st.english_names,
              updated |-> Put(st.updated, relation_key, stored),
              t2r |-> NoteTarget(st.t2r, target, relation_key),
              entity_updated |-> st.entity_updated \/ missing,
              created |-> IF missing THEN Append(st.created, target) ELSE st.created]

\* One relation of the loop of lines 509-613.  st holds the entity map, the
\* english_names set, updated_relations, target_to_relations, entity_updated
\* and the names of the entities created.
ValidateRelation(st, c2e, relation_key, relation_def) ==
  LET record == HasField(relation_def, "target")
      target == IF record THEN relation_def.d.target
                ELSE IF relation_def.t = "str" THEN relation_def.s ELSE None
  IN IF InvalidTarget(target) THEN st
     ELSE LET known == Has(c2e, target)
              missing == ~known /\ target \notin st.english_names
              final == IF known THEN Get(c2e, target) ELSE target
              stored == IF record
                        THEN [t |-> "dict", d |-> [relation_def.d EXCEPT !.target = final]]
                        ELSE [t |-> "dict", d |-> [name |-> relation_key, target |-> final]]
          IN [entities |-> IF missing THEN CreateMissingEntity(st.entities, target)
                           ELSE st.entities,
              english_names |-> IF missing THEN st.english_names \cup {target}
                                ELSE st.english_names,
              updated |-> Put(st.updated, relation_key, stored),
              t2r |-> NoteTarget(st.t2r, final, relation_key),
              entity_updated |-> st.entity_updated \/ known \/ missing,
              created |-> IF missing THEN Append(st.created, target) ELSE st.created]

RECURSIVE ValidateRelations(_, _, _)
ValidateRelations(st, c2e, relations) ==
  IF relations = <<>> THEN st
  ELSE ValidateRelations(ValidateRelation(st, c2e, Head(relations).k, Head(relations).v),
                         c2e, Tail(relations))

\* A fold that deletes the later relations and records no alias
MergeByTarget_NoAliases(updated, relation_keys) ==
  DelAll(updated, Tail(relation_keys))

\* lines 616-639 for one target: the first relation keeps the edge, the names
\* of the others are appended to its aliases and their entries deleted
MergeByTarget(updated, relation_keys) ==
  LET primary_relation == relation_keys[1]
      others == Tail(relation_keys)
      d == Get(updated, primary_relation).d
      aliases == IF "aliases" \in DOMAIN d THEN d.aliases ELSE <<>>
      \* updated_relations[key].get('name', key)
      RelName(key) ==
        IF "name" \in DOMAIN Get(updated, key).d THEN Get(updated, key).d.name ELSE key
      names == [i \in 1..Len(others) |-> RelName(others[i])]
      withAliases ==
        [f \in DOMAIN d \cup {"aliases"} |-> IF f = "aliases" THEN aliases \o names ELSE d[f]]
  IN DelAll(Put(updated, primary_relation, [t |-> "dict", d |-> withAliases]), others)

RECURSIVE MergeDuplicateRelations(_, _)
MergeDuplicateRelations(updated, t2r) ==
  IF t2r = <<>> THEN updated
  ELSE MergeDuplicateRelations(
         IF Len(Head(t2r).v) > 1 THEN MergeByTarget(updated, Head(t2r).v) ELSE updated,
         Tail(t2r))

\* The body of the loop of line 492 for one entity of the snapshot
ValidateEntity(acc, c2e, entity_key, entity) ==
  IF entity.relations = <<>> THEN acc
  ELSE LET st == ValidateRelations(
                   [entities |-> acc.entities, english_names |-> acc.english_names,
                    updated |-> <<>>, t2r |-> <<>>, entity_updated |-> FALSE,
                    created |-> acc.created],
                   c2e, entity.relations)
           merges == \E i \in 1..Len(st.t2r) : Len(st.t2r[i].v) > 1
           updated_relations == MergeDuplicateRelations(st.updated, st.t2r)
           store == st.entity_updated \/ merges
                    \/ AsMap(updated_relations) # AsMap(entity.relations)
       IN [entities |-> IF store
                        THEN Put(st.entities, entity_key,
                                 [Get(st.entities, entity_key) EXCEPT
                                    !.relations = updated_relations])
                        ELSE st.entities,
           english_names |-> st.english_names,
           created |-> st.created]

RECURSIVE ValidateEntities(_, _, _)
ValidateEntities(acc, c2e, snapshot) ==
  IF snapshot = <<>> THEN acc
  ELSE ValidateEntities(ValidateEntity(acc, c2e, Head(snapshot).k, Head(snapshot).v),
                        c2e, Tail(snapshot))

\* A validator that starts from empty name maps: every target is a missing one
ValidateAndUpdateRelations_NoNameMaps(ents) ==
  LET r == ValidateEntities([entities |-> ents, english_names |-> {}, created |-> <<>>],
                            <<>>, ents)
  IN [entities |-> r.entities, created_entities |-> r.created]

\* validate_and_update_relations: the entity map it leaves and the entities created
ValidateAndUpdateRelations(ents) ==
  LET EnglishNames ==
        {ents[i].v.name : i \in {j \in 1..Len(ents) :
                                   Truthy(ents[j].v.chinese_name) /\ Truthy(ents[j].v.name)}}
      r == ValidateEntities([entities |-> ents, english_names |-> EnglishNames,
                             created |-> <<>>],
                            ChineseToEnglish(ents, <<>>), ents)
  IN [entities |-> r.entities, created_entities |-> r.created]

-----------------------------------------------------------------------------
(* SchemaGenerator._sort_entities_by_dependency *)

\* dict.get(f, default) on a definition
GetOr(d, f, default) == IF f \in DOMAIN d THEN d[f] ELSE default

\* entity_map = {entity['name']: entity for entity in entities} (line 631)
RECURSIVE EntityMap(_, _)
EntityMap(ents, map) ==
  IF ents = <<>> THEN map
  ELSE EntityMap(Tail(ents), Put(map, Head(ents).name, Head(ents)))

\* A dependency graph that looks at property types only
Dependencies_PropsOnly(ents, entity) ==
  {r \in {GetOr(entity.properties[i].v, "type", "") : i \in 1..Len(entity.properties)} :
     Has(EntityMap(ents, <<>>), r) /\ r # entity.name}

\* lines 635-652: the names one entity of the list depends on
Dependencies(ents, entity) ==
  {r \in {GetOr(entity.properties[i].v, "type", "") : i \in 1..Len(entity.properties)}
         \cup {GetOr(entity.relations[i].v, "target", "") : i \in 1..Len(entity.relations)} :
     Has(EntityMap(ents, <<>>), r) /\ r # entity.name}

\* dependencies.get(entity_name, set()): the entry of a name is written by the
\* last entity of the list that bears it, which is the one entity_map holds
DependenciesOf(ents, entity_name) ==
  IF Has(EntityMap(ents, <<>>), entity_name)
  THEN Dependencies(ents, Get(EntityMap(ents, <<>>), entity_name))
  ELSE {}

-----------------------------------------------------------------------------
(* The manager as a state machine *)

VARIABLES
  entities,         \* SchemaManager.entities, when it is a dict of entities
  entitiesType,     \* the Python type of SchemaManager.entities ("dict" unless an import stored another)
  namespace,        \* SchemaManager.namespace
  lastOp,           \* the last operation called: "init", "add", "merge", "validate",
                    \* "export_json", "export_yaml", "import_json", "import_yaml"
  prevOp,           \* the operation called before it
  pre,              \* the entity map when the last operation was called
  preNamespace,     \* the namespace when the last operation was called
  exported,         \* the text last exported, its format, and the graph it was taken from
  ret,              \* what the last operation returned
  nOps,             \* the number of operations called
  ingested,         \* the keys add_or_update_entity has been called with
  survivors,        \* the keys a merge pass has selected as the primary of a group
  sortIn,           \* _sort_entities_by_dependency: the list `entities` it is given
  sorted_entities,  \* its local sorted_entities
  visited,          \* its local visited
  temp_visited,     \* its local temp_visited
  stack,            \* the calls of dfs in progress: the name, the dependencies not yet looped over
  keysTodo,         \* the names the loop of line 682 has not reached yet
  warnings,         \* the number of warnings logged at line 659
  sortPc,           \* "idle", "run" (inside the function) or "done" (it has returned)
  response,         \* the records of the answer of the language model to the last chunk
  llm_client,       \* the client SchemaGenerator was given for that chunk
  raw_entities,     \* extract_entities_from_chunk: its local raw_entities
  standardized_entities,  \* the list extract_entities_from_chunk returned
  schema_string,    \* the text generate_entity_schema_string returned last, and for which entity
  genPc             \* "idle", "extracted" or "generated"

mgrVars ==
  <<entities, entitiesType, namespace, lastOp, prevOp, pre, preNamespace, exported, ret, nOps,
    ingested, survivors>>

sortVars ==
  <<sortIn, sorted_entities, visited, temp_visited, stack, keysTodo, warnings, sortPc>>

genVars ==
  <<response, llm_client, raw_entities, standardized_entities, schema_string, genPc>>

vars == <<mgrVars, sortVars, genVars>>

\* SchemaGenerator before any chunk was handed to it
GenIdle ==
  /\ response = <<>>
  /\ llm_client = None
  /\ raw_entities = <<>>
  /\ standardized_entities = <<>>
  /\ schema_string = [entity |-> 0, text |-> [raised |-> FALSE, lines |-> <<>>]]
  /\ genPc = "idle"

MaxOps == 4

MaxEntities == 3

\* Descriptions: 11 characters, and 22 characters sharing 4 of its 5 words with the first
DescShort == <<"a", "a", " ", "b", "b", " ", "c", "c", " ", "d", "d">>

Plain(target) == [t |-> "str", s |-> target]

Record(d) == [t |-> "dict", d |-> d]

Item(k, v) == [k |-> k, v |-> v]

Args(entity_name, chinese_name, description, properties, relations, openspg_type) ==
  [entity_name |-> entity_name, chinese_name |-> chinese_name,
   description |-> description, properties |-> properties, relations |-> relations,
   openspg_type |-> openspg_type, entity_type |-> None]

\* The records ingested under Spec: a record varies the key, the display name
\* (that of another record, or the key of another record) or the relations
ArgPool ==
  LET RelPool ==
        { <<Item("r1", Plain("dX"))>>,
          <<Item("r1", Record([name |-> "n1", target |-> "dX"]))>>,
          <<Item("r1", Plain("Unk"))>>,
          <<Item("r1", Record([name |-> "n1", target |-> None]))>>,
          <<Item("r1", Plain("Ba")), Item("r2", Record([name |-> "n2", target |-> "Ba"]))>>,
          <<Item("r2", Plain("a_bab"))>> }
  IN {Args(k, None, <<>>, <<>>, <<>>, None) : k \in {"Abab", "a_bab", "Ba"}}
     \cup {Args("Abab", c, <<>>, <<>>, <<>>, None) : c \in {"dX", "Ba"}}
     \cup {Args("Ba", "dX", <<>>, <<>>, <<>>, None)}
     \cup {Args(k, None, <<>>, <<>>, r, None) : k \in {"Ba", "Ababb"}, r \in RelPool}

\* The records ingested under SpecMerge: a record varies the key, the
\* properties (a simple value, a full definition), the description, the
\* display name or the relations (maps that collide on the key r1 with
\* different sub-fields)
MergeArgPool ==
  LET PropPool ==
        { <<Item("color", Plain("red"))>>,
          <<Item("size", Record([name |-> "size(size)", type |-> "Text"]))>> }
      DescLong ==
        <<"a", "a", " ", "b", "b", " ", "c", "c", " ", "D", "d", " ",
          "e", "e", "e", "e", "e", "e", "e", "e", "e", "e">>
      MergeRelPool ==
        { <<Item("r1", Record([name |-> "n1", target |-> "Ba", constraint |-> ""]))>>,
          <<Item("r1", Record([name |-> "n2", target |-> "Unk", constraint |-> "NotNull"])),
            Item("r2", Plain("Ba"))>> }
  IN {Args(k, None, <<>>, <<>>, <<>>, None) : k \in {"Abab", "Ababb", "babb"}}
     \cup {Args(k, None, <<>>, p, <<>>, None) : k \in {"Ababb", "a_bab"}, p \in PropPool}
     \cup {Args("Abab", None, d, <<>>, <<>>, None) : d \in {DescShort, DescLong}}
     \cup {Args("Ba", None, DescShort, <<>>, <<>>, None)}
     \cup {Args(k, "dX", <<>>, <<>>, <<>>, None) : k \in {"Abab", "Ba"}}
     \cup {Args(k, None, <<>>, <<>>, r, None) : k \in {"Abab", "Ababb"}, r \in MergeRelPool}

\* What a call returned: the action of add_or_update_entity, the entities
\* removed by a merge pass or created by a validate pass, the result of an
\* import ("True" or "False") and where its text came from
NoRet == [action |-> None, removed |-> <<>>, created |-> <<>>, ok |-> None, source |-> None]

\* SchemaManager() as constructed
MgrInit ==
  /\ entities = <<>>
  /\ entitiesType = "dict"
  /\ namespace = "Engineering"
  /\ preNamespace = "Engineering"
  /\ exported = [fmt |-> None, text |-> <<>>, entities |-> <<>>, namespace |-> None]
  /\ lastOp = "init"
  /\ prevOp = "init"
  /\ pre = <<>>
  /\ ret = NoRet
  /\ nOps = 0
  /\ ingested = {}
  /\ survivors = {}

\* The manager as constructed, no call of the sequencer in progress
Init ==
  /\ MgrInit
  /\ sortIn = <<>>
  /\ sorted_entities = <<>>
  /\ visited = {}
  /\ temp_visited = {}
  /\ stack = <<>>
  /\ keysTodo = <<>>
  /\ warnings = 0
  /\ sortPc = "idle"
  /\ GenIdle

\* The bookkeeping of one call: what was called, and the entity map before it
Called(op) ==
  /\ nOps' = nOps + 1
  /\ pre' = entities
  /\ preNamespace' = namespace
  /\ prevOp' = lastOp
  /\ lastOp' = op

\* add_or_update_entity(a)
Add(a) ==
  /\ nOps < MaxOps
  /\ entitiesType = "dict"
  /\ Has(entities, a.entity_name) \/ Len(entities) < MaxEntities
  /\ entities' = AddOrUpdateEntity(entities, a)
  /\ ret' = [NoRet EXCEPT !.action = IF Has(entities, a.entity_name) THEN "updated" ELSE "created"]
  /\ Called("add")
  /\ ingested' = ingested \cup {a.entity_name}
  /\ UNCHANGED <<namespace, entitiesType, exported, survivors, sortVars, genVars>>

\* merge_and_remove_duplicate_entities()
Merge ==
  /\ nOps < MaxOps
  /\ entitiesType = "dict"
  /\ entities' = MergeAndRemoveDuplicateEntities(entities).entities
  /\ ret' = [NoRet EXCEPT
               !.removed = MergeAndRemoveDuplicateEntities(entities).removed_entities]
  /\ Called("merge")
  /\ survivors' = survivors \cup {SelectPrimaryEntity(entities, GroupSimilarEntities(entities)[i]) :
                                    i \in 1..Len(GroupSimilarEntities(entities))}
  /\ UNCHANGED <<namespace, entitiesType, exported, ingested, sortVars, genVars>>

\* validate_and_update_relations()
Validate ==
  /\ nOps < MaxOps
  /\ entitiesType = "dict"
  /\ entities' = ValidateAndUpdateRelations(entities).entities
  /\ ret' = [NoRet EXCEPT
               !.created = ValidateAndUpdateRelations(entities).created_entities]
  /\ Called("validate")
  /\ UNCHANGED <<namespace, entitiesType, exported, ingested, survivors, sortVars, genVars>>

Next ==
  \/ \E a \in ArgPool : Add(a)
  \/ Merge
  \/ Validate

Spec == Init /\ [][Next]_vars

NextMerge ==
  \/ \E a \in MergeArgPool : Add(a)
  \/ Merge
  \/ Validate

SpecMerge == Init /\ [][NextMerge]_vars

\* Longer sequences of calls over few records
MaxLongOps == 5

\* The records ingested under SpecLong: three keys that are similar in pairs
\* (babb and Ababb, Ababb and Abab, Abab and a_bab) and one that is similar to
\* Ababb only, with relation maps that collide on the key r2 with different
\* sub-fields, and one map that repeats a relation of another; and two keys
\* unlike those four that share a display name, the first with relations to
\* two similar keys and to a third
LongArgPool ==
  { Args("babb", None, <<>>, <<>>, <<>>, None),
    Args("Ba", None, <<>>, <<>>,
         <<Item("r1", Plain("Abab")), Item("r2", Plain("a_bab")), Item("n1", Plain("Unk"))>>,
         None),
    Args("dX", "Ba", <<>>, <<>>, <<>>, None),
    Args("Ababb", None, <<>>, <<>>,
         <<Item("r1", Plain("Ba")),
           Item("r2", Record([name |-> "n2", target |-> "Ba", constraint |-> ""]))>>, None),
    Args("Ababb", None, <<>>, <<>>,
         <<Item("r2", Record([name |-> "n2", target |-> "Ba", constraint |-> ""]))>>, None),
    Args("Abab", None, <<>>, <<>>,
         <<Item("r2", Record([name |-> "n2", target |-> "Ba"]))>>, None),
    Args("a_bab", None, <<>>, <<>>,
         <<Item("r2", Record([name |-> "n1", target |-> "Unk", constraint |-> "NotNull"]))>>,
         None) }

\* add_or_update_entity(a), in a sequence of at most MaxLongOps calls
LongAdd(a) ==
  /\ nOps < MaxLongOps
  /\ entitiesType = "dict"
  /\ Has(entities, a.entity_name) \/ Len(entities) < MaxEntities
  /\ entities' = AddOrUpdateEntity(entities, a)
  /\ ret' = [NoRet EXCEPT !.action = IF Has(entities, a.entity_name) THEN "updated" ELSE "created"]
  /\ Called("add")
  /\ ingested' = ingested \cup {a.entity_name}
  /\ UNCHANGED <<namespace, entitiesType, exported, survivors, sortVars, genVars>>

\* merge_and_remove_duplicate_entities(), in such a sequence
LongMerge ==
  /\ nOps < MaxLongOps
  /\ entitiesType = "dict"
  /\ entities' = MergeAndRemoveDuplicateEntities(entities).entities
  /\ ret' = [NoRet EXCEPT
               !.removed = MergeAndRemoveDuplicateEntities(entities).removed_entities]
  /\ Called("merge")
  /\ survivors' = survivors \cup {SelectPrimaryEntity(entities, GroupSimilarEntities(entities)[i]) :
                                    i \in 1..Len(GroupSimilarEntities(entities))}
  /\ UNCHANGED <<namespace, entitiesType, exported, ingested, sortVars, genVars>>

\* validate_and_update_relations(), in such a sequence
LongValidate ==
  /\ nOps < MaxLongOps
  /\ entitiesType = "dict"
  /\ entities' = ValidateAndUpdateRelations(entities).entities
  /\ ret' = [NoRet EXCEPT
               !.created = ValidateAndUpdateRelations(entities).created_entities]
  /\ Called("validate")
  /\ UNCHANGED <<namespace, entitiesType, exported, ingested, survivors, sortVars, genVars>>

NextLong ==
  \/ \E a \in LongArgPool : LongAdd(a)
  \/ LongMerge
  \/ LongValidate

SpecLong == Init /\ [][NextLong]_vars

-----------------------------------------------------------------------------
(* The dependency sequencer as a state machine: one call of                *)
(* _sort_entities_by_dependency, a step per call of dfs, per turn of its   *)
(* loop and per return.  The loop of line 667 runs over a set: the order is *)
(* any order.                                                              *)

MaxSortEntities == 3

SortNames == <<"A", "B", "C">>

\* An entity of the list: one property, of a basic type or of an entity type,
\* and at most one relation
SortEntity(name, ptype, rtarget) ==
  [name |-> name,
   properties |-> <<Item("p1", [name |-> "p1", type |-> ptype])>>,
   relations |-> IF rtarget = None THEN <<>>
                 ELSE <<Item("r1", [name |-> "r1", target |-> rtarget])>>]

\* The lists given to the sequencer: distinct names, every reference pattern
SortInputs ==
  LET SortNameSet == {SortNames[i] : i \in 1..Len(SortNames)}
      longest == IF MaxSortEntities < Len(SortNames) THEN MaxSortEntities ELSE Len(SortNames)
  IN UNION {{[i \in 1..n |-> SortEntity(SortNames[i], f[i][1], f[i][2])] :
               f \in [1..n -> ({"Text"} \cup SortNameSet) \X ({None} \cup SortNameSet)]} :
              n \in 0..longest}

SortInit ==
  /\ MgrInit
  /\ sortIn \in SortInputs
  /\ sorted_entities = <<>>
  /\ visited = {}
  /\ temp_visited = {}
  /\ stack = <<>>
  /\ keysTodo = KeySeq(EntityMap(sortIn, <<>>))
  /\ warnings = 0
  /\ sortPc = "run"
  /\ GenIdle

\* A dfs that does not ask whether the entity was visited before
Enter_NoVisitedCheck(stk, entity_name) ==
  IF entity_name \in temp_visited
  THEN /\ warnings' = warnings + 1
       /\ stack' = stk
       /\ UNCHANGED temp_visited
  ELSE /\ temp_visited' = temp_visited \cup {entity_name}
       /\ stack' = Append(stk, [entity_name |-> entity_name,
                                todo |-> DependenciesOf(sortIn, entity_name)])
       /\ UNCHANGED warnings

\* dfs(entity_name) down to its loop (lines 656-664), called with stk the calls in progress
Enter(stk, entity_name) ==
  IF entity_name \in temp_visited
  THEN /\ warnings' = warnings + 1
       /\ stack' = stk
       /\ UNCHANGED temp_visited
  ELSE IF entity_name \in visited
       THEN /\ stack' = stk
            /\ UNCHANGED <<temp_visited, warnings>>
       ELSE /\ temp_visited' = temp_visited \cup {entity_name}
            /\ stack' = Append(stk, [entity_name |-> entity_name,
                                     todo |-> DependenciesOf(sortIn, entity_name)])
            /\ UNCHANGED warnings

\* One turn of the loop of lines 682-684
SortOuter ==
  /\ sortPc = "run"
  /\ stack = <<>>
  /\ keysTodo # <<>>
  /\ keysTodo' = Tail(keysTodo)
  /\ IF Head(keysTodo) \notin visited
     THEN Enter(<<>>, Head(keysTodo))
     ELSE UNCHANGED <<stack, temp_visited, warnings>>
  /\ UNCHANGED <<genVars, mgrVars, sortIn, sorted_entities, visited, sortPc>>

\* One turn of the loop of lines 667-669 in the innermost dfs
SortInner ==
  /\ sortPc = "run"
  /\ stack # <<>>
  /\ \E dep \in stack[Len(stack)].todo :
       /\ Has(EntityMap(sortIn, <<>>), dep)
       /\ Enter([stack EXCEPT ![Len(stack)].todo = @ \ {dep}], dep)
  /\ UNCHANGED <<genVars, mgrVars, sortIn, sorted_entities, visited, keysTodo, sortPc>>

\* The end of the innermost dfs (lines 671-675)
SortReturn ==
  /\ sortPc = "run"
  /\ stack # <<>>
  /\ stack[Len(stack)].todo = {}
  /\ temp_visited' = temp_visited \ {stack[Len(stack)].entity_name}
  /\ visited' = visited \cup {stack[Len(stack)].entity_name}
  /\ sorted_entities' =
       IF Has(EntityMap(sortIn, <<>>), stack[Len(stack)].entity_name)
       THEN Append(sorted_entities, Get(EntityMap(sortIn, <<>>), stack[Len(stack)].entity_name))
       ELSE sorted_entities
  /\ stack' = SubSeq(stack, 1, Len(stack) - 1)
  /\ UNCHANGED <<genVars, mgrVars, sortIn, keysTodo, warnings, sortPc>>

\* return sorted_entities (line 688)
SortFinish ==
  /\ sortPc = "run"
  /\ stack = <<>>
  /\ keysTodo = <<>>
  /\ sortPc' = "done"
  /\ UNCHANGED <<genVars, mgrVars, sortIn, sorted_entities, visited, temp_visited, stack,
                 keysTodo, warnings>>

SortNext ==
  \/ SortOuter
  \/ SortInner
  \/ SortReturn
  \/ SortFinish

\* The interpreter runs the call to its end: a step that can be taken is taken
SpecSort == SortInit /\ [][SortNext]_vars /\ WF_vars(SortNext)

-----------------------------------------------------------------------------
(* Export and import: the Python values handed to json and yaml *)

\* A str known by name, a str known by its characters (a description), None,
\* a bool, an int, a list, a dict in insertion order
PyStr(s) == [t |-> "str", s |-> s]

PyText(cs) == [t |-> "text", cs |-> cs]

PyNone == [t |-> "none"]

PyBool(b) == [t |-> "bool", b |-> b]

PyInt(n) == [t |-> "int", n |-> n]

PyList(xs) == [t |-> "list", xs |-> xs]

PyMap(items) == [t |-> "map", items |-> items]

StrOrNone(x) == IF x = None THEN PyNone ELSE PyStr(x)

\* datetime.now().isoformat(): the model keeps no clock, every timestamp reads the same
Timestamp == "2026-01-01T00:00:00.000000"

\* An entity as the dict the manager stores (lines 92-102 and 663-674); the
\* keys type, english_name and entity_type are held when the model has a value
\* for them, the flag auto_created and created_at by stubs.  DefTree is a
\* property or relation definition as a Python dict (the model does not keep
\* the order in which a definition holds its sub-fields), DictTree a
\* properties or relations map.
EntityTree(e) ==
  LET SubFields == <<"name", "type", "constraint", "target", "aliases">>
      DefTree(d) ==
        LET fields == SelectSeq(SubFields, LAMBDA f : f \in DOMAIN d)
        IN PyMap([i \in 1..Len(fields) |->
                    Item(fields[i],
                         IF fields[i] = "aliases"
                         THEN PyList([j \in 1..Len(d.aliases) |-> PyStr(d.aliases[j])])
                         ELSE StrOrNone(d[fields[i]]))])
      DictTree(d) ==
        PyMap([i \in 1..Len(d) |->
                 Item(d[i].k, IF d[i].v.t = "str" THEN PyStr(d[i].v.s) ELSE DefTree(d[i].v.d))])
  IN
  SelectSeq(
    << Item("name", StrOrNone(e.name)),
       Item("english_name", StrOrNone(e.english_name)),
       Item("chinese_name", StrOrNone(e.chinese_name)),
       Item("description", PyText(e.description)),
       Item("type", StrOrNone(e.type)),
       Item("openspg_type", StrOrNone(e.openspg_type)),
       Item("entity_type", StrOrNone(e.entity_type)),
       Item("properties", DictTree(e.properties)),
       Item("relations", DictTree(e.relations)),
       Item("created", IF e.auto_created THEN PyNone ELSE PyStr(Timestamp)),
       Item("last_modified", IF e.auto_created THEN PyNone ELSE PyStr(Timestamp)),
       Item("created_at", IF e.auto_created THEN PyStr(Timestamp) ELSE PyNone),
       Item("auto_created", IF e.auto_created THEN PyBool(TRUE) ELSE PyNone) >>,
    LAMBDA it : it.k \in {"name", "chinese_name", "description", "openspg_type",
                          "properties", "relations"} \/ it.v # PyNone)

\* type_counts of get_statistics (lines 806-809)
RECURSIVE TypeCounts(_, _)
TypeCounts(ents, counts) ==
  IF ents = <<>> THEN counts
  ELSE LET entity_type == IF Head(ents).v.type = None THEN "Others" ELSE Head(ents).v.type
           n == IF Has(counts, entity_type) THEN Get(counts, entity_type).n ELSE 0
       IN TypeCounts(Tail(ents), Put(counts, entity_type, PyInt(n + 1)))

RECURSIVE PropertyCount(_)
PropertyCount(ents) ==
  IF ents = <<>> THEN 0 ELSE Len(Head(ents).v.properties) + PropertyCount(Tail(ents))

\* export_data of export_to_json and export_to_yaml.  Statistics is
\* get_statistics() without the modification log (total_modifications,
\* recent_modifications), which the model does not keep and no import reads.
ExportData(ents, ns) ==
  LET EntitiesTree ==
        PyMap([i \in 1..Len(ents) |-> Item(ents[i].k, PyMap(EntityTree(ents[i].v)))])
      Statistics ==
        PyMap(<< Item("entity_count", PyInt(Len(ents))),
                 Item("property_count", PyInt(PropertyCount(ents))),
                 Item("entity_types", PyMap(TypeCounts(ents, <<>>))),
                 Item("creation_time", PyStr(Timestamp)),
                 Item("last_modified", PyStr(Timestamp)) >>)
  IN PyMap(<< Item("namespace", PyStr(ns)),
              Item("entities", EntitiesTree),
              Item("statistics", Statistics),
              Item("export_time", PyStr(Timestamp)) >>)

\* The value of a sub-field read back from a loaded document
FieldValue(v) ==
  CASE v.t = "str" -> v.s
    [] v.t = "none" -> None
    [] v.t = "list" -> [j \in 1..Len(v.xs) |-> v.xs[j].s]

\* A loaded properties or relations map in the form the model keeps
DictOfTree(v) ==
  [i \in 1..Len(v.items) |->
     Item(v.items[i].k,
          IF v.items[i].v.t = "str" THEN [t |-> "str", s |-> v.items[i].v.s]
          ELSE [t |-> "dict",
                d |-> [f \in KeySet(v.items[i].v.items) |->
                         FieldValue(Get(v.items[i].v.items, f))]])]

\* A loaded entity in the form the model keeps; a key the dict lacks reads None
EntityOfTree(v) ==
  LET field(k) == IF Has(v.items, k) THEN FieldValue(Get(v.items, k)) ELSE None
  IN [name          |-> field("name"),
      chinese_name  |-> field("chinese_name"),
      description   |-> Get(v.items, "description").cs,
      type          |-> field("type"),
      openspg_type  |-> field("openspg_type"),
      properties    |-> DictOfTree(Get(v.items, "properties")),
      relations     |-> DictOfTree(Get(v.items, "relations")),
      english_name  |-> field("english_name"),
      entity_type   |-> field("entity_type"),
      auto_created  |-> Has(v.items, "auto_created") /\ Get(v.items, "auto_created") = PyBool(TRUE)]

\* `key in data` for a str key: a key of a dict, an element of a list, a
\* substring of a str; a TypeError ("raise") on None, an int or a bool
KeyIn(key, data) ==
  CASE data.t = "map" -> IF Has(data.items, key) THEN "True" ELSE "False"
    [] data.t = "list" ->
         IF \E i \in 1..Len(data.xs) : data.xs[i] = PyStr(key) THEN "True" ELSE "False"
    [] data.t = "str" -> IF IsSubstr(Chars(key), Chars(data.s)) THEN "True" ELSE "False"
    [] OTHER -> "raise"

\* The manager as lines 844-852 (and 910-918) leave it, given what the loader
\* returned.  loaded.ok is FALSE when the loader raised.  An exception is
\* caught at line 854 (920): the call returns False with what was assigned
\* before it.
ImportData(loaded, ents, type, ns) ==
  LET unchanged == [ok |-> "False", entities |-> ents, entitiesType |-> type, namespace |-> ns]
      \* The loaded value is a dict of dicts: an entity map
      IsEntityMapTree(v) ==
        v.t = "map" /\ \A i \in 1..Len(v.items) : v.items[i].v.t = "map"
      EntitiesOfTree(v) ==
        [i \in 1..Len(v.items) |-> Item(v.items[i].k, EntityOfTree(v.items[i].v))]
      \* type(x).__name__
      PyTypeName(v) ==
        CASE v.t = "map" -> "dict"
          [] v.t = "list" -> "list"
          [] v.t = "none" -> "NoneType"
          [] v.t = "int" -> "int"
          [] v.t = "bool" -> "bool"
          [] v.t \in {"str", "text"} -> "str"
  IN IF ~loaded.ok THEN unchanged
     ELSE LET data == loaded.value
              hasEntities == KeyIn("entities", data)
              \* data['entities'] on a list or a str raises
              afterEntities ==
                IF hasEntities = "True"
                THEN IF data.t # "map" THEN [raised |-> TRUE, entities |-> ents, type |-> type]
                     ELSE IF IsEntityMapTree(Get(data.items, "entities"))
                          THEN [raised |-> FALSE,
                                entities |-> EntitiesOfTree(Get(data.items, "entities")),
                                type |-> "dict"]
                          ELSE [raised |-> FALSE, entities |-> <<>>,
                                type |-> PyTypeName(Get(data.items, "entities"))]
                ELSE [raised |-> hasEntities = "raise", entities |-> ents, type |-> type]
          IN IF afterEntities.raised THEN unchanged
             ELSE IF KeyIn("namespace", data) = "True"
                  THEN IF data.t # "map"
                       THEN [unchanged EXCEPT !.entities = afterEntities.entities,
                                              !.entitiesType = afterEntities.type]
                       ELSE [ok |-> "True", entities |-> afterEntities.entities,
                             entitiesType |-> afterEntities.type,
                             namespace |-> Get(data.items, "namespace").s]
                  ELSE [ok |-> "True", entities |-> afterEntities.entities,
                        entitiesType |-> afterEntities.type, namespace |-> ns]

-----------------------------------------------------------------------------
(* json.dumps and json.loads *)

\* The JSON text of a value, as the value it denotes: object members in the
\* order of the dict, None as null, True as true
RECURSIVE JsonDumps(_)
JsonDumps(v) ==
  CASE v.t = "str" -> [j |-> "string", s |-> v.s]
    [] v.t = "text" -> [j |-> "string", cs |-> v.cs]
    [] v.t = "none" -> [j |-> "null"]
    [] v.t = "bool" -> [j |-> IF v.b THEN "true" ELSE "false"]
    [] v.t = "int" -> [j |-> "number", n |-> v.n]
    [] v.t = "list" -> [j |-> "array", elements |-> [i \in 1..Len(v.xs) |-> JsonDumps(v.xs[i])]]
    [] v.t = "map" ->
         [j |-> "object",
          members |-> [i \in 1..Len(v.items) |->
                         [k |-> v.items[i].k, v |-> JsonDumps(v.items[i].v)]]]

RECURSIVE JsonValue(_)
JsonValue(x) ==
  CASE x.j = "string" -> IF "s" \in DOMAIN x THEN PyStr(x.s) ELSE PyText(x.cs)
    [] x.j = "null" -> PyNone
    [] x.j = "true" -> PyBool(TRUE)
    [] x.j = "false" -> PyBool(FALSE)
    [] x.j = "number" -> PyInt(x.n)
    [] x.j = "array" -> PyList([i \in 1..Len(x.elements) |-> JsonValue(x.elements[i])])
    [] x.j = "object" ->
         PyMap([i \in 1..Len(x.members) |->
                  [k |-> x.members[i].k, v |-> JsonValue(x.members[i].v)]])

\* export_to_json
ExportToJson(ents, ns) == JsonDumps(ExportData(ents, ns))

\* import_from_json: the result and the manager it leaves.  json.loads gives
\* the value of a well-formed text and raises on any other.
ImportFromJson(json_data, ents, type, ns) ==
  LET JsonLoads ==
        IF json_data.j = "invalid" THEN [ok |-> FALSE, value |-> PyNone]
        ELSE [ok |-> TRUE, value |-> JsonValue(json_data)]
  IN ImportData(JsonLoads, ents, type, ns)

-----------------------------------------------------------------------------
(* yaml.dump and yaml.safe_load, and the tab conversion around them.  A text *)
(* is its sequence of lines; a line is its leading whitespace and what      *)
(* follows: "key: value", "key:" opening a block, "key: {}", "key: []" or   *)
(* "- value".  Anchors (the modification log refers to the stored entities) *)
(* are left out with the log.                                               *)

\* The dict keys of the model in code-point order: yaml.dump sorts the keys
CodePointOrder ==
  <<"Abab", "Ababb", "ArtificialObject", "Ba", "Building", "Concept", "Date",
    "Event", "GeographicLocation", "Organization", "Others", "Person", "Unk",
    "Works", "a_bab", "aliases", "auto_created", "babb", "chinese_name",
    "color", "constraint", "created", "created_at", "creation_time", "dX",
    "desc", "description", "english_name", "entities", "entity_count",
    "entity_type", "entity_types", "export_time", "fileName", "last_modified",
    "name", "namespace", "openspg_type", "properties", "property_count", "r1",
    "r2", "relations", "size", "statistics", "target", "type" >>

RECURSIVE InsertItem(_, _)
InsertItem(sorted, it) ==
  LET KeyRank(k) == CHOOSE i \in 1..Len(CodePointOrder) : CodePointOrder[i] = k
  IN IF sorted = <<>> THEN <<it>>
     ELSE IF KeyRank(it.k) < KeyRank(Head(sorted).k) THEN <<it>> \o sorted
          ELSE <<Head(sorted)>> \o InsertItem(Tail(sorted), it)

RECURSIVE SortItems(_)
SortItems(items) ==
  IF items = <<>> THEN <<>> ELSE InsertItem(SortItems(Tail(items)), Head(items))

\* What the resolver makes of a plain scalar
Resolved(s) ==
  CASE s \in {"", "~", "null", "Null", "NULL"} -> "null"
    [] s \in {"true", "True", "TRUE", "yes", "Yes", "YES", "on", "On", "ON"} -> "true"
    [] s \in {"false", "False", "FALSE", "no", "No", "NO", "off", "Off", "OFF"} -> "false"
    [] s = Timestamp -> "timestamp"
    [] OTHER -> "str"

\* A scalar as written: its style and its text (a word, characters or digits)
Scalar(style, form, s, cs, n) == [style |-> style, form |-> form, s |-> s, cs |-> cs, n |-> n]

NoScalar == Scalar("none", "none", "", <<>>, 0)

\* The representer and the emitter's choice of style.  A str is written in
\* quotes when, plain, it would not read back as that str: the resolver takes
\* it for another type, or it starts or ends with a space; the same for a str
\* known by its characters (none of them spells a word the resolver takes for
\* another type).
ScalarOf(v) ==
  LET NeedsQuotes(s) == Resolved(s) # "str" \/ s = " "
      NeedsQuotesText(cs) ==
        \/ cs = <<>>
        \/ IsSpace(cs[1]) \/ IsSpace(cs[Len(cs)])
        \/ IsSubstr(<<":", " ">>, cs) \/ IsSubstr(<<" ", "#">>, cs)
  IN
  CASE v.t = "str" ->
         Scalar(IF NeedsQuotes(v.s) THEN "single" ELSE "plain", "word", v.s, <<>>, 0)
    [] v.t = "text" ->
         Scalar(IF NeedsQuotesText(v.cs) THEN "single" ELSE "plain", "chars", "", v.cs, 0)
    [] v.t = "none" -> Scalar("plain", "word", "null", <<>>, 0)
    [] v.t = "bool" -> Scalar("plain", "word", IF v.b THEN "true" ELSE "false", <<>>, 0)
    [] v.t = "int" -> Scalar("plain", "digits", "", <<>>, v.n)

\* The resolver and the constructor: a quoted scalar is a str, a plain one
\* what it resolves to
ValueOf(sc) ==
  IF sc.form = "digits" THEN PyInt(sc.n)
  ELSE IF sc.form = "chars" THEN PyText(sc.cs)
  ELSE IF sc.style = "single" THEN PyStr(sc.s)
  ELSE CASE Resolved(sc.s) = "null" -> PyNone
         [] Resolved(sc.s) = "true" -> PyBool(TRUE)
         [] Resolved(sc.s) = "false" -> PyBool(FALSE)
         [] Resolved(sc.s) = "timestamp" -> [t |-> "datetime"]
         [] OTHER -> PyStr(sc.s)

\* A line: `lead` is its leading whitespace, `flow` is "", "{}", "[]" or
\* "garbage" (text no YAML grammar accepts)
Line(count, dash, key, val, flow) ==
  [lead |-> [char |-> "space", count |-> count], dash |-> dash, key |-> key, val |-> val,
   flow |-> flow]

\* An emitter that indents by the indent=1 of line 873
YamlIndentOf_AsAsked(depth) == depth

\* The emitter's indentation at a nesting depth: best_indent stays 2, the
\* indent=1 of line 873 being outside the range it accepts
YamlIndentOf(depth) == 2 * depth

\* The lines of the entries of a block mapping; a sequence is written at the
\* indentation of its key
RECURSIVE YamlDumpItems(_, _)
YamlDumpItems(items, depth) ==
  IF items = <<>> THEN <<>>
  ELSE LET k == ScalarOf(PyStr(Head(items).k))
           v == Head(items).v
           at == YamlIndentOf(depth)
           entry ==
             CASE v.t = "map" ->
                    IF v.items = <<>> THEN <<Line(at, FALSE, k, NoScalar, "{}")>>
                    ELSE <<Line(at, FALSE, k, NoScalar, "")>>
                         \o YamlDumpItems(SortItems(v.items), depth + 1)
               [] v.t = "list" ->
                    IF v.xs = <<>> THEN <<Line(at, FALSE, k, NoScalar, "[]")>>
                    ELSE <<Line(at, FALSE, k, NoScalar, "")>>
                         \o [i \in 1..Len(v.xs) |->
                               Line(at, TRUE, NoScalar, ScalarOf(v.xs[i]), "")]
               [] OTHER -> <<Line(at, FALSE, k, ScalarOf(v), "")>>
       IN entry \o YamlDumpItems(Tail(items), depth)

\* export_to_yaml: yaml.dump(export_data, default_flow_style=False, ...), then
\* lines 878-888: the leading spaces of a line become one tab for every two
ExportToYaml(ents, ns) ==
  LET yaml_str == YamlDumpItems(SortItems(ExportData(ents, ns).items), 0)
      ToTabs(line) ==
        IF line.lead.char = "space"
        THEN [line EXCEPT !.lead = [char |-> "tab", count |-> line.lead.count \div 2]]
        ELSE [line EXCEPT !.lead = [char |-> "tab", count |-> 0]]
  IN [i \in 1..Len(yaml_str) |-> ToTabs(yaml_str[i])]

\* The end of the run of sequence entries that starts at line i
RECURSIVE SeqEnd(_, _, _)
SeqEnd(lines, i, indent) ==
  IF i <= Len(lines) /\ lines[i].dash /\ lines[i].lead.count = indent
  THEN SeqEnd(lines, i + 1, indent) ELSE i

\* The block mapping whose entries stand at `indent`, from line i on: its
\* items and the line after it; ok is FALSE where the parser raises
RECURSIVE YamlParseMap(_, _, _)
YamlParseMap(lines, i, indent) ==
  IF i > Len(lines) \/ lines[i].lead.count < indent
  THEN [ok |-> TRUE, items |-> <<>>, next |-> i]
  ELSE IF lines[i].lead.count > indent \/ lines[i].dash \/ lines[i].key = NoScalar
       THEN [ok |-> FALSE, items |-> <<>>, next |-> i]
       ELSE LET line == lines[i]
                key == IF ValueOf(line.key).t = "str" THEN ValueOf(line.key).s ELSE None
                nested == i + 1 <= Len(lines) /\ lines[i + 1].lead.count > indent
                                /\ ~lines[i + 1].dash
                listed == i + 1 <= Len(lines) /\ lines[i + 1].lead.count >= indent
                                /\ lines[i + 1].dash
                sub == YamlParseMap(lines, i + 1, lines[i + 1].lead.count)
                end == SeqEnd(lines, i + 1, lines[i + 1].lead.count)
                entry ==
                  IF line.flow = "{}" THEN [ok |-> TRUE, v |-> PyMap(<<>>), next |-> i + 1]
                  ELSE IF line.flow = "[]" THEN [ok |-> TRUE, v |-> PyList(<<>>), next |-> i + 1]
                  ELSE IF line.val # NoScalar
                       THEN [ok |-> TRUE, v |-> ValueOf(line.val), next |-> i + 1]
                  ELSE IF listed
                       THEN [ok |-> TRUE,
                             v |-> PyList([j \in 1..(end - i - 1) |-> ValueOf(lines[i + j].val)]),
                             next |-> end]
                  ELSE IF nested
                       THEN [ok |-> sub.ok, v |-> PyMap(sub.items), next |-> sub.next]
                  ELSE [ok |-> TRUE, v |-> PyNone, next |-> i + 1]
                rest == YamlParseMap(lines, entry.next, indent)
            IN IF ~entry.ok THEN [ok |-> FALSE, items |-> <<>>, next |-> i]
               ELSE [ok |-> rest.ok, items |-> <<Item(key, entry.v)>> \o rest.items,
                     next |-> rest.next]

\* yaml.safe_load: an exception on text the grammar rejects and on a tab used
\* for indentation, None for an empty text, else the document's value
YamlLoad(lines) ==
  IF \E i \in 1..Len(lines) :
        lines[i].flow = "garbage" \/ (lines[i].lead.char = "tab" /\ lines[i].lead.count > 0)
  THEN [ok |-> FALSE, value |-> PyNone]
  ELSE IF lines = <<>> THEN [ok |-> TRUE, value |-> PyNone]
  ELSE IF lines[1].dash
       THEN [ok |-> SeqEnd(lines, 1, lines[1].lead.count) = Len(lines) + 1,
             value |-> PyList([j \in 1..Len(lines) |-> ValueOf(lines[j].val)])]
  ELSE IF lines[1].key = NoScalar
       THEN [ok |-> Len(lines) = 1, value |-> ValueOf(lines[1].val)]
  ELSE [ok |-> YamlParseMap(lines, 1, lines[1].lead.count).ok
                /\ YamlParseMap(lines, 1, lines[1].lead.count).next = Len(lines) + 1,
        value |-> PyMap(YamlParseMap(lines, 1, lines[1].lead.count).items)]

\* import_from_yaml: the result and the manager it leaves; lines 897-905, the
\* leading tabs of a line become two spaces each
ImportFromYaml(yaml_data, ents, type, ns) ==
  LET ToSpaces(line) ==
        IF line.lead.char = "tab"
        THEN [line EXCEPT !.lead = [char |-> "space", count |-> 2 * line.lead.count]]
        ELSE line
  IN ImportData(YamlLoad([i \in 1..Len(yaml_data) |-> ToSpaces(yaml_data[i])]), ents, type, ns)

-----------------------------------------------------------------------------
(* The manager with its export and import as a state machine *)

\* The records ingested under SpecIO: a bare record; one with a description,
\* a full property definition, a plain-string relation to "null" and a relation
\* record with no target and an empty constraint; a concept with a blank
\* display name, a raw property value "true" and a relation with aliases
IOArgPool ==
  { Args("Abab", None, <<>>, <<>>, <<>>, None),
    Args("Ba", "dX", DescShort,
         <<Item("size", Record([name |-> "size(size)", type |-> "Text"]))>>,
         <<Item("r1", Plain("null")),
           Item("r2", Record([name |-> "n2", target |-> None, constraint |-> ""]))>>,
         None),
    Args("a_bab", " ", <<>>,
         <<Item("color", Plain("true"))>>,
         <<Item("r1", Record([name |-> "n1", target |-> "Ba", aliases |-> <<"n2", "null">>]))>>,
         "ConceptType") }

\* Texts handed to import_from_json that are not an export: text that does
\* not parse, and the texts of [1], {"entities": [1]}, {"namespace": "Medical"},
\* "entities" and 5
SuppliedJson ==
  { [j |-> "invalid"],
    JsonDumps(PyList(<<PyInt(1)>>)),
    JsonDumps(PyMap(<<Item("entities", PyList(<<PyInt(1)>>))>>)),
    JsonDumps(PyMap(<<Item("namespace", PyStr("Medical"))>>)),
    JsonDumps(PyStr("entities")),
    JsonDumps(PyInt(5)) }

\* Texts handed to import_from_yaml that are not an export: text that does
\* not parse, the empty text, and the texts "entities: 5", "- 1" and
\* "namespace: Medical"
SuppliedYaml ==
  { <<Line(0, FALSE, NoScalar, NoScalar, "garbage")>>,
    <<>>,
    <<Line(0, FALSE, ScalarOf(PyStr("entities")), ScalarOf(PyInt(5)), "")>>,
    <<Line(0, TRUE, NoScalar, ScalarOf(PyInt(1)), "")>>,
    <<Line(0, FALSE, ScalarOf(PyStr("namespace")), ScalarOf(PyStr("Medical")), "")>> }

\* export_to_json() (get_statistics raises on a store that is no dict)
ExportJson ==
  /\ nOps < MaxOps
  /\ entitiesType = "dict"
  /\ exported' = [fmt |-> "json", text |-> ExportToJson(entities, namespace),
                  entities |-> entities, namespace |-> namespace]
  /\ ret' = NoRet
  /\ Called("export_json")
  /\ UNCHANGED <<entities, entitiesType, namespace, ingested, survivors, sortVars, genVars>>

\* export_to_yaml()
ExportYaml ==
  /\ nOps < MaxOps
  /\ entitiesType = "dict"
  /\ exported' = [fmt |-> "yaml", text |-> ExportToYaml(entities, namespace),
                  entities |-> entities, namespace |-> namespace]
  /\ ret' = NoRet
  /\ Called("export_yaml")
  /\ UNCHANGED <<entities, entitiesType, namespace, ingested, survivors, sortVars, genVars>>

\* import_from_json(json_data)
ImportJson(json_data, source) ==
  /\ nOps < MaxOps
  /\ entities' = ImportFromJson(json_data, entities, entitiesType, namespace).entities
  /\ entitiesType' = ImportFromJson(json_data, entities, entitiesType, namespace).entitiesType
  /\ namespace' = ImportFromJson(json_data, entities, entitiesType, namespace).namespace
  /\ ret' = [NoRet EXCEPT
               !.ok = ImportFromJson(json_data, entities, entitiesType, namespace).ok,
               !.source = source]
  /\ Called("import_json")
  /\ UNCHANGED <<exported, ingested, survivors, sortVars, genVars>>

\* import_from_yaml(yaml_data)
ImportYaml(yaml_data, source) ==
  /\ nOps < MaxOps
  /\ entities' = ImportFromYaml(yaml_data, entities, entitiesType, namespace).entities
  /\ entitiesType' = ImportFromYaml(yaml_data, entities, entitiesType, namespace).entitiesType
  /\ namespace' = ImportFromYaml(yaml_data, entities, entitiesType, namespace).namespace
  /\ ret' = [NoRet EXCEPT
               !.ok = ImportFromYaml(yaml_data, entities, entitiesType, namespace).ok,
               !.source = source]
  /\ Called("import_yaml")
  /\ UNCHANGED <<exported, ingested, survivors, sortVars, genVars>>

\* Importing the text last exported
ImportExportedJson == exported.fmt = "json" /\ ImportJson(exported.text, "export")

ImportExportedYaml == exported.fmt = "yaml" /\ ImportYaml(exported.text, "export")

\* Importing a text that is no export
ImportSuppliedJson == \E json_data \in SuppliedJson : ImportJson(json_data, "supplied")

ImportSuppliedYaml == \E yaml_data \in SuppliedYaml : ImportYaml(yaml_data, "supplied")

NextIO ==
  \/ \E a \in IOArgPool : Add(a)
  \/ ExportJson
  \/ ExportYaml
  \/ ImportExportedJson
  \/ ImportExportedYaml
  \/ ImportSuppliedJson
  \/ ImportSuppliedYaml

SpecIO == Init /\ [][NextIO]_vars

-----------------------------------------------------------------------------
(* The normalizer: LLMClient._parse_entity_response and SchemaGenerator.   *)
(* Every text it works on by character (a name, a key, a description) is   *)
(* kept as its sequence of characters; a property type, a relation target  *)
(* and a constraint are TLA+ strings.  A record of the answer is a         *)
(* function from the fields it holds.                                      *)

\* One character: its class, and c.upper() and c.lower().  Every element
\* that is no ASCII character of the model is a Chinese character
\* (U+4E00..U+9FFF).
Char(c) ==
  LET lower == <<"a", "b", "c", "d", "e", "f", "g", "h", "i", "j", "k", "l", "m", "n", "o", "p", "q", "r", "s", "t", "u", "v", "w", "x", "y", "z">>
      upper == <<"A", "B", "C", "D", "E", "F", "G", "H", "I", "J", "K", "L", "M", "N", "O", "P", "Q", "R", "S", "T", "U", "V", "W", "X", "Y", "Z">>
      IsLetter == \E i \in 1..26 : upper[i] = c \/ lower[i] = c
      at == CHOOSE i \in 1..26 : upper[i] = c \/ lower[i] = c
  IN [class |-> CASE \E i \in 1..26 : upper[i] = c -> "upper"
                  [] \E i \in 1..26 : lower[i] = c -> "lower"
                  [] c \in {"0", "1", "2", "3", "4", "5", "6", "7", "8", "9"} -> "digit"
                  [] c = "_" -> "underscore"
                  [] c \in {" ", "\t", "\n", "(", ")", "-", ".", ",", ":", "/"} -> "other"
                  [] OTHER -> "hanzi",
      upper |-> IF IsLetter THEN upper[at] ELSE c,
      lower |-> IF IsLetter THEN lower[at] ELSE c]

\* SchemaGenerator._fix_english_name, with _validate_english_name (lines 202-220)
FixEnglishName(name) ==
  LET stripped == SelectSeq(name, LAMBDA c : Char(c).class \in {"upper", "lower", "digit"})
      fixed == IF stripped # <<>> /\ Char(stripped[1]).class = "lower"
               THEN <<Char(stripped[1]).upper>> \o Tail(stripped)
               ELSE stripped
      IsAlnum(cs) == cs # <<>> /\ \A i \in 1..Len(cs) :
                        Char(cs[i]).class \in {"upper", "lower", "hanzi", "digit"}
      ValidateEnglishName(n) ==
        /\ n # <<>>
        /\ Char(n[1]).class = "upper"
        /\ IsAlnum(Remove(Remove(n, "_"), "-"))
        /\ ~\E i \in 1..Len(n) : n[i] \in {"_", "-"} \/ IsSpace(n[i])
  IN IF name = <<>> THEN <<>>
     ELSE IF fixed # <<>> /\ Char(fixed[1]).class = "digit" THEN <<>>
     ELSE IF ValidateEnglishName(fixed) THEN fixed ELSE <<>>

\* LLMClient._validate_entity_naming.  Every pattern of steps 1 to 3 ends in
\* \s*\([^)]*\)$ and the last pattern of step 1 is ^.*\s*\([^)]*\)$ : a name
\* matches one of them exactly when it matches that one.
ValidateEntityNaming(entity_name, english_name) ==
  LET name == RStrip(LStrip(entity_name))
      EndsInParentheses ==
        /\ name # <<>>
        /\ name[Len(name)] = ")"
        /\ \E i \in 1..(Len(name) - 1) :
              /\ name[i] = "("
              /\ \A j \in (i + 1)..(Len(name) - 1) : name[j] # ")"
              /\ \A j \in 1..(i - 1) : name[j] # "\n"
      InvalidCharacter ==
        \E i \in 1..Len(entity_name) :
           \/ entity_name[i] = " "
           \/ /\ Char(entity_name[i]).class \notin {"upper", "lower", "digit", "underscore", "hanzi"}
              /\ entity_name[i] # "-"
      EnglishNameFormat ==
        /\ Char(english_name[1]).class = "upper"
        /\ \A i \in 2..Len(english_name) :
              Char(english_name[i]).class \in {"upper", "lower", "digit"}
      known_error_mappings ==
        { <<<<"wen2", "ming2", "shi1", "gong1", "guan3", "li3", "mu4", "biao1">>, <<"R", "e", "f", "l", "e", "c", "t", "i", "v", "e", "V", "e", "s", "t">>>>,
          <<<<"sui4", "dao4", "huo3", "zai1">>, <<"W", "e", "a", "k", "B", "l", "a", "s", "t", "i", "n", "g">>>>,
          <<<<"n", "a", "m", "e", "(", "ming2", "cheng1", ")">>, <<"F", "r", "e", "q", "u", "e", "n", "t", "M", "o", "n", "i", "t", "o", "r", "i", "n", "g">>>>,
          <<<<"d", "e", "s", "c", "(", "miao2", "shu4", ")">>, <<"S", "t", "r", "o", "n", "g", "S", "u", "p", "p", "o", "r", "t">>>>,
          <<<<"n", "a", "m", "e", "ming2", "cheng1">>, <<"N", "a", "m", "e">>>>,
          <<<<"d", "e", "s", "c", "miao2", "shu4">>, <<"D", "e", "s", "c", "r", "i", "p", "t", "i", "o", "n">>>> }
      inconsistent_mappings ==
        { <<<<"wen2", "ming2", "shi1", "gong1", "guan3", "li3", "mu4", "biao1">>, <<"R", "e", "f", "l", "e", "c", "t", "i", "v", "e", "V", "e", "s", "t">>>>,
          <<<<"shi1", "gong1", "gao4", "shi4", "pai2">>, <<"D", "u", "s", "t", "M", "a", "s", "k">>>>,
          <<<<"hun4", "ning2", "tu3">>, <<"S", "a", "f", "e", "t", "y", "H", "e", "l", "m", "e", "t">>>>,
          <<<<"gang1", "jin1">>, <<"S", "a", "f", "e", "t", "y", "G", "l", "o", "v", "e", "s">>>>,
          <<<<"sui4", "dao4", "huo3", "zai1">>, <<"W", "e", "a", "k", "B", "l", "a", "s", "t", "i", "n", "g">>>>,
          <<<<"n", "a", "m", "e", "(", "ming2", "cheng1", ")">>, <<"F", "r", "e", "q", "u", "e", "n", "t", "M", "o", "n", "i", "t", "o", "r", "i", "n", "g">>>>,
          <<<<"d", "e", "s", "c", "(", "miao2", "shu4", ")">>, <<"S", "t", "r", "o", "n", "g", "S", "u", "p", "p", "o", "r", "t">>>> }
  IN /\ ~EndsInParentheses
     /\ ~InvalidCharacter
     /\ english_name # <<>> => (EnglishNameFormat /\ Len(english_name) <= 50)
     /\ <<entity_name, english_name>> \notin known_error_mappings
     /\ Len(name) >= 2
     /\ Len(name) <= 30
     /\ <<entity_name, english_name>> \notin inconsistent_mappings

\* LLMClient._parse_entity_response on an answer that is a JSON list of
\* objects: the records kept, in order, the first of each name
ParseEntityResponse(records) ==
  LET Stripped(entity, f) == RStrip(LStrip(GetOr(entity, f, <<>>)))
      \* the name of a record, and whether lines 540-551 let it through
      Checked(entity_name, english_name) ==
        [name  |-> entity_name,
         valid |-> entity_name # <<>> /\ ValidateEntityNaming(entity_name, english_name)]
      Named(english_name, name) ==
        Checked(IF english_name # <<>> THEN english_name ELSE name, english_name)
      StandardizedEntity(entity, entity_name) ==
        [f \in {"name", "english_name", "chinese_name", "description", "category",
                "properties"} \cup ({"entity_type", "relations"} \cap DOMAIN entity) |->
           CASE f = "name" -> entity_name
             [] f \in {"english_name", "chinese_name", "description"} -> Stripped(entity, f)
             [] f = "category" -> RStrip(LStrip(GetOr(entity, f, <<"O", "t", "h", "e", "r", "s">>)))
             [] f = "properties" -> GetOr(entity, f, <<>>)
             [] OTHER -> entity[f]]
      Unique(checks) ==
        LET unique_entities[i \in 0..Len(records)] ==
              IF i = 0 THEN <<>>
              ELSE IF /\ checks[i].valid
                      /\ ~\E j \in 1..(i - 1) :
                            checks[j].valid /\ checks[j].name = checks[i].name
                   THEN Append(unique_entities[i - 1],
                               StandardizedEntity(records[i], checks[i].name))
                   ELSE unique_entities[i - 1]
        IN unique_entities[Len(records)]
  IN Unique([i \in 1..Len(records) |->
               Named(Stripped(records[i], "english_name"), Stripped(records[i], "name"))])

\* SchemaGenerator._standardize_property_name
StandardizePropertyName(prop_name) ==
  LET RECURSIVE Decimal(_)
      Decimal(n) ==
        IF n < 10 THEN <<<<"0", "1", "2", "3", "4", "5", "6", "7", "8", "9">>[n + 1]>>
        ELSE Decimal(n \div 10) \o <<<<"0", "1", "2", "3", "4", "5", "6", "7", "8", "9">>[(n % 10) + 1]>>
      chinese_to_english ==
        << Item(<<"ming2", "cheng1">>, <<"n", "a", "m", "e">>),
           Item(<<"miao2", "shu4">>, <<"d", "e", "s", "c", "r", "i", "p", "t", "i", "o", "n">>),
           Item(<<"lei4", "xing2">>, <<"t", "y", "p", "e">>),
           Item(<<"zhi2">>, <<"v", "a", "l", "u", "e">>),
           Item(<<"shu3", "xing4">>, <<"p", "r", "o", "p", "e", "r", "t", "y">>),
           Item(<<"can1", "shu4">>, <<"p", "a", "r", "a", "m", "e", "t", "e", "r">>),
           Item(<<"pei4", "zhi4">>, <<"c", "o", "n", "f", "i", "g">>),
           Item(<<"she4", "zhi4">>, <<"s", "e", "t", "t", "i", "n", "g">>) >>
      \* chinese_to_english.get(standardized, f'prop_{len(standardized)}')
      Lookup(table, cleaned) ==
        IF Has(table, cleaned) THEN Get(table, cleaned)
        ELSE <<"p", "r", "o", "p", "_">> \o Decimal(Len(cleaned))
      Translated(cleaned) ==
        IF cleaned # <<>> /\ \A i \in 1..Len(cleaned) : Char(cleaned[i]).class = "hanzi"
        THEN Lookup(chinese_to_english, cleaned)
        ELSE cleaned
      Lettered(translated) ==
        IF translated # <<>> /\ Char(translated[1]).class \notin {"upper", "lower", "hanzi"}
        THEN <<"p", "r", "o", "p", "_">> \o translated ELSE translated
      Standardized(lettered) ==
        IF lettered # <<>> /\ Char(lettered[1]).class = "upper"
        THEN <<Char(lettered[1]).lower>> \o Tail(lettered) ELSE lettered
      OrDefault(standardized) ==
        IF standardized # <<>> THEN standardized ELSE <<"c", "u", "s", "t", "o", "m", "P", "r", "o", "p", "e", "r", "t", "y">>
  IN OrDefault(Standardized(Lettered(Translated(
       SelectSeq(prop_name, LAMBDA c :
          Char(c).class \in {"upper", "lower", "digit", "underscore", "hanzi"})))))

\* SchemaGenerator._standardize_relation_name
StandardizeRelationName(relation_name) ==
  LET Standardized(cleaned) ==
        IF cleaned = <<>> THEN <<"r", "e", "l", "a", "t", "e", "s", "T", "o">>
        ELSE IF Char(cleaned[1]).class \in {"upper", "lower"}
             THEN <<Char(cleaned[1]).lower>> \o Tail(cleaned)
             ELSE cleaned
  IN Standardized(SelectSeq(relation_name, LAMBDA c :
        Char(c).class \in {"upper", "lower", "digit", "underscore", "hanzi"}))

\* SchemaGenerator._extract_chinese_name_from_property: the group of the
\* leftmost match of \(([^)]+)\), or the name itself
ExtractChineseNameFromProperty(prop_name) ==
  LET Closes(i, j) ==
        prop_name[j] = ")" /\ \A k \in (i + 1)..(j - 1) : prop_name[k] # ")"
      Match(i) ==
        prop_name[i] = "(" /\ \E j \in (i + 2)..Len(prop_name) : Closes(i, j)
      Group(first) ==
        SubSeq(prop_name, first + 1, (CHOOSE j \in (first + 2)..Len(prop_name) : Closes(first, j)) - 1)
      Found(matches) ==
        IF matches = {} THEN prop_name
        ELSE Group(CHOOSE i \in matches : \A k \in matches : i <= k)
  IN Found({i \in 1..Len(prop_name) : Match(i)})

\* SchemaGenerator._build_entity_properties, with _validate_property_type
BuildEntityProperties(entity) ==
  LET ValidatePropertyType(prop_type) ==
        \/ prop_type \in {<<"T", "e", "x", "t">>, <<"I", "n", "t", "e", "g", "e", "r">>, <<"F", "l", "o", "a", "t">>}
        \/ prop_type \in {<<"S", "T", "D", ".", "C", "h", "i", "n", "a", "M", "o", "b", "i", "l", "e">>, <<"S", "T", "D", ".", "E", "m", "a", "i", "l">>, <<"S", "T", "D", ".", "I", "d", "C", "a", "r", "d", "N", "o">>,
                          <<"S", "T", "D", ".", "M", "a", "c", "A", "d", "d", "r", "e", "s", "s">>, <<"S", "T", "D", ".", "D", "a", "t", "e">>, <<"S", "T", "D", ".", "C", "h", "i", "n", "a", "T", "e", "l", "C", "o", "d", "e">>,
                          <<"S", "T", "D", ".", "T", "i", "m", "e", "s", "t", "a", "m", "p">>}
        \/ /\ prop_type # <<>>
           /\ Char(prop_type[1]).class = "upper"
           /\ Remove(prop_type, "_") # <<>>
           /\ \A i \in 1..Len(prop_type) :
                 Char(prop_type[i]).class \in {"upper", "lower", "hanzi", "digit", "underscore"}
      Validated(prop_type) == IF ValidatePropertyType(prop_type) THEN prop_type ELSE <<"T", "e", "x", "t">>
      \* the chinese_name of a definition whose 'name' reads prop_name_full
      Chosen(key, prop_name_full, chinese_name) ==
        IF chinese_name \in {<<>>, prop_name_full} THEN key ELSE chinese_name
      ChineseName(key, prop_name_full) ==
        Chosen(key, prop_name_full, ExtractChineseNameFromProperty(prop_name_full))
      \* prop_def: name, type and chinese_name, and the fields of `optional`
      \* the value holds non-empty
      Def(standardized_key, chinese_name, type, d, optional, sub) ==
        [f \in {"name", "type", "chinese_name"}
                 \cup {o \in optional : GetOr(d, o, <<>>) # <<>>} |->
           CASE f = "name" -> standardized_key \o <<"(">> \o chinese_name \o <<")">>
             [] f = "type" -> type
             [] f = "chinese_name" -> chinese_name
             [] f = "properties" -> sub
             [] OTHER -> d[f]]
      SubPropDef(key, d) ==
        Def(StandardizePropertyName(key),
            ChineseName(key, GetOr(d, "name", key \o <<"(">> \o key \o <<")">>)),
            GetOr(d, "type", <<"T", "e", "x", "t">>), d, {"description", "constraint"}, <<>>)
      SubProperties(items) ==
        LET sub[i \in 0..Len(items)] ==
              IF i = 0 THEN <<>>
              ELSE Update(sub[i - 1],
                          IF items[i].v.t = "dict"
                          THEN <<Item(StandardizePropertyName(items[i].k),
                                      Record(SubPropDef(items[i].k, items[i].v.d)))>>
                          ELSE <<>>)
        IN sub[Len(items)]
      PropDef(key, d) ==
        Def(StandardizePropertyName(key),
            ChineseName(key, GetOr(d, "name", key \o <<"(">> \o key \o <<")">>)),
            Validated(GetOr(d, "type", <<"T", "e", "x", "t">>)), d,
            {"description", "constraint", "properties"},
            SubProperties(GetOr(d, "properties", <<>>)))
      \* what one item of entity['properties'] adds to properties
      Added(standardized_key, key, value) ==
        IF value.t = "dict" THEN <<Item(standardized_key, Record(PropDef(key, value.d)))>>
        ELSE IF value.t = "str"
        THEN <<Item(standardized_key,
                    Record([name |-> standardized_key \o <<"(">> \o value.s \o <<")">>,
                            type |-> <<"T", "e", "x", "t">>,
                            chinese_name |-> value.s]))>>
        ELSE <<>>
      Built(items) ==
        LET properties[i \in 0..Len(items)] ==
              IF i = 0 THEN <<>>
              ELSE Update(properties[i - 1],
                          Added(StandardizePropertyName(items[i].k), items[i].k, items[i].v))
        IN properties[Len(items)]
  IN Built(GetOr(entity, "properties", <<>>))

\* SchemaGenerator._build_entity_relations
BuildEntityRelations(entity) ==
  LET Chosen(key, rel_name_full, chinese_name) ==
        IF chinese_name \in {<<>>, rel_name_full} THEN key ELSE chinese_name
      ChineseName(key, rel_name_full) ==
        Chosen(key, rel_name_full, ExtractChineseNameFromProperty(rel_name_full))
      Def(standardized_key, chinese_name, field, value, d, optional, sub) ==
        [f \in {"name", field, "chinese_name"}
                 \cup {o \in optional : GetOr(d, o, <<>>) # <<>>} |->
           CASE f = "name" -> standardized_key \o <<"(">> \o chinese_name \o <<")">>
             [] f = field -> value
             [] f = "chinese_name" -> chinese_name
             [] f = "properties" -> sub
             [] OTHER -> d[f]]
      BasicType(rel_prop_type) ==
        IF rel_prop_type \in {<<"T", "e", "x", "t">>, <<"I", "n", "t", "e", "g", "e", "r">>, <<"F", "l", "o", "a", "t">>}
        THEN rel_prop_type ELSE <<"T", "e", "x", "t">>
      RelPropDef(key, d) ==
        Def(StandardizePropertyName(key),
            ChineseName(key, GetOr(d, "name", key \o <<"(">> \o key \o <<")">>)),
            "type", BasicType(GetOr(d, "type", <<"T", "e", "x", "t">>)), d,
            {"description", "constraint"}, <<>>)
      RelProperties(items) ==
        LET sub[i \in 0..Len(items)] ==
              IF i = 0 THEN <<>>
              ELSE Update(sub[i - 1],
                          IF items[i].v.t = "dict"
                          THEN <<Item(StandardizePropertyName(items[i].k),
                                      Record(RelPropDef(items[i].k, items[i].v.d)))>>
                          ELSE <<>>)
        IN sub[Len(items)]
      RelDef(key, d) ==
        Def(StandardizeRelationName(key),
            ChineseName(key, GetOr(d, "name", key \o <<"(">> \o key \o <<")">>)),
            "target", GetOr(d, "target", <<"E", "n", "t", "i", "t", "y">>), d,
            {"description", "constraint", "properties"},
            RelProperties(GetOr(d, "properties", <<>>)))
      \* what one item of entity['relations'] adds to relations
      Added(standardized_key, key, value) ==
        IF value.t = "dict" THEN <<Item(standardized_key, Record(RelDef(key, value.d)))>>
        ELSE IF value.t = "str"
        THEN <<Item(standardized_key,
                    Record([name |-> standardized_key \o <<"(">> \o value.s \o <<")">>,
                            target |-> <<"E", "n", "t", "i", "t", "y">>,
                            chinese_name |-> value.s]))>>
        ELSE <<>>
      Built(items) ==
        LET relations[i \in 0..Len(items)] ==
              IF i = 0 THEN <<>>
              ELSE Update(relations[i - 1],
                          Added(StandardizeRelationName(items[i].k), items[i].k, items[i].v))
        IN relations[Len(items)]
  IN Built(GetOr(entity, "relations", <<>>))

\* SchemaGenerator._standardize_entity: the standardized entity as a sequence
\* of one element, or the empty sequence where the code returns None
StandardizeEntity(entity) ==
  LET Count(cs, c) == Cardinality({i \in 1..Len(cs) : cs[i] = c})
      \* re.match(r'^([^()]+)\(([^()]+)\)$', entity_name), open the place of "("
      Matches(name, open) ==
        /\ Count(name, "(") = 1
        /\ Count(name, ")") = 1
        /\ name[Len(name)] = ")"
        /\ open > 1
        /\ open < Len(name) - 1
      Split(name, open) ==
        IF Matches(name, open)
        THEN [entity_name  |-> RStrip(LStrip(SubSeq(name, 1, open - 1))),
              chinese_name |-> RStrip(LStrip(SubSeq(name, open + 1, Len(name) - 1)))]
        ELSE [entity_name |-> name, chinese_name |-> <<>>]
      \* entity_name and chinese_name at line 158
      Names(name, chinese_name) ==
        IF chinese_name = <<>> /\ Count(name, "(") > 0
        THEN Split(name, CHOOSE i \in 1..Len(name) : name[i] = "(")
        ELSE [entity_name |-> name, chinese_name |-> chinese_name]
      Standardized(names, fixed_english_name, type) ==
        IF names.entity_name = <<>> THEN <<>>
        ELSE << [name             |-> fixed_english_name,
                 chinese_name     |-> IF names.chinese_name = <<>> THEN names.entity_name
                                      ELSE names.chinese_name,
                 english_name     |-> fixed_english_name,
                 description      |-> RStrip(LStrip(GetOr(entity, "description", <<>>))),
                 openspg_type     |-> GetOr(entity, "openspg_type", "EntityType"),
                 traditional_type |-> type,
                 category         |-> GetOr(entity, "category", <<"qi2", "ta1">>),
                 type             |-> type,
                 properties       |-> BuildEntityProperties(entity),
                 relations        |-> BuildEntityRelations(entity)] >>
      Fixed(names) ==
        Standardized(names, FixEnglishName(names.entity_name), GetOr(entity, "type", <<"shi2", "ti3">>))
  IN Fixed(Names(RStrip(LStrip(GetOr(entity, "name", <<>>))),
                 RStrip(LStrip(GetOr(entity, "chinese_name", <<>>)))))

\* SchemaGenerator.extract_entities_from_chunk, from the list the client
\* returned: the standardized entities that are not None
ExtractEntitiesFromChunk(raw) ==
  LET kept[i \in 0..Len(raw)] ==
        IF i = 0 THEN <<>>
        ELSE kept[i - 1] \o StandardizeEntity(raw[i])
  IN kept[Len(raw)]

-----------------------------------------------------------------------------
(* The serializers of one entity.  The text returned is the sequence of    *)
(* its lines; a line is its kind, its leading whitespace, its label and    *)
(* the value after ": " (None for a line that ends in ":").  A call that   *)
(* raises returns no text.                                                 *)

SchemaLine(kind, char, count, label, value) ==
  [kind |-> kind, lead |-> [char |-> char, count |-> count], label |-> label, value |-> value]

\* SchemaManager._generate_entity_schema_string(entity), entity an entity of
\* the manager
MgrGenerateEntitySchemaString(entity) ==
  LET properties == entity.properties
      relations == entity.relations
      \* prop_def['name'] on a str raises TypeError, on a dict without the key KeyError
      Raises == /\ entity.openspg_type # "ConceptType"
                /\ \E i \in 1..Len(properties) :
                      ~(HasField(properties[i].v, "name") /\ HasField(properties[i].v, "type"))
      PropLines(d) ==
        <<SchemaLine("property", "\t", 2, d.name, d.type)>>
        \o (IF "constraint" \in DOMAIN d /\ Truthy(d.constraint)
            THEN <<SchemaLine("constraint", "\t", 3, "constraint", d.constraint)>> ELSE <<>>)
        \o (IF "index" \in DOMAIN d
            THEN <<SchemaLine("index", "\t", 3, "index", d.index)>> ELSE <<>>)
      standard[i \in 0..2] ==
        IF i = 0 THEN <<>>
        ELSE IF Has(properties, <<"desc", "name">>[i])
             THEN standard[i - 1] \o PropLines(Get(properties, <<"desc", "name">>[i]).d)
             ELSE standard[i - 1]
      custom[i \in 0..Len(properties)] ==
        IF i = 0 THEN <<>>
        ELSE IF properties[i].k \notin {"desc", "name"}
             THEN custom[i - 1] \o PropLines(properties[i].v.d)
             ELSE custom[i - 1]
      RelLines(item) ==
        IF HasField(item.v, "name") /\ HasField(item.v, "target")
        THEN <<SchemaLine("relation", "\t", 2, item.v.d.name, item.v.d.target)>>
             \o (IF "constraint" \in DOMAIN item.v.d /\ Truthy(item.v.d.constraint)
                 THEN <<SchemaLine("constraint", "\t", 3, "constraint", item.v.d.constraint)>>
                 ELSE <<>>)
        ELSE <<SchemaLine("relation", "\t", 2, item.k, item.v)>>
      rels[i \in 0..Len(relations)] ==
        IF i = 0 THEN <<>> ELSE rels[i - 1] \o RelLines(relations[i])
      header == SchemaLine("entity", "", 0, <<entity.name, entity.chinese_name>>,
                           entity.openspg_type)
  IN IF Raises THEN [raised |-> TRUE, lines |-> <<>>]
     ELSE IF entity.openspg_type = "ConceptType"
     THEN [raised |-> FALSE,
           lines |-> <<header, SchemaLine("hypernymPredicate", "\t", 1, "hypernymPredicate", "isA")>>]
     ELSE [raised |-> FALSE,
           lines |-> <<header>>
             \o (IF properties # <<>>
                 THEN <<SchemaLine("properties", "\t", 1, "properties", None)>>
                      \o standard[2] \o custom[Len(properties)]
                 ELSE <<>>)
             \o (IF relations # <<>>
                 THEN <<SchemaLine("relations", "\t", 1, "relations", None)>>
                      \o rels[Len(relations)]
                 ELSE <<>>)]

\* SchemaManager.generate_schema_string: the namespace line and the blocks of
\* the entities, the types in sorted order and the entities of one type
\* sorted by name (lines 370-382); an entity without the field type (one
\* created by _create_missing_entity) is filed under 'Others'.  The call
\* raises when the serializer of a block does.
GenerateSchemaString(ents, ns) ==
  LET TypeOf(e) == IF e.type = None THEN "Others" ELSE e.type
      types == SelectSeq(CodePointOrder,
                         LAMBDA t : \E i \in 1..Len(ents) : TypeOf(ents[i].v) = t)
      OfType(t) ==
        SortItems([i \in 1..Len(SelectSeq(ents, LAMBDA it : TypeOf(it.v) = t)) |->
                     [k |-> SelectSeq(ents, LAMBDA it : TypeOf(it.v) = t)[i].v.name,
                      v |-> SelectSeq(ents, LAMBDA it : TypeOf(it.v) = t)[i].v]])
      blocks[n \in 0..Len(types)] ==
        IF n = 0 THEN <<>>
        ELSE blocks[n - 1]
             \o [i \in 1..Len(OfType(types[n])) |->
                   [entity |-> OfType(types[n])[i].k,
                    text |-> MgrGenerateEntitySchemaString(OfType(types[n])[i].v)]]
  IN [raised |-> \E i \in 1..Len(ents) : MgrGenerateEntitySchemaString(ents[i].v).raised,
      namespace |-> ns,
      blocks |-> blocks[Len(types)]]

\* SchemaGenerator.generate_entity_schema_string(entity), entity a
\* standardized entity
GenerateEntitySchemaString(entity) ==
  LET ToLower(cs) == [i \in 1..Len(cs) |-> Char(cs[i]).lower]
      properties == entity.properties
      relations == entity.relations
      has_desc == \E i \in 1..Len(properties) :
                     \/ IsSubstr(<<"d", "e", "s", "c">>, ToLower(properties[i].k))
                     \/ IsSubstr(<<"d", "e", "s", "c", "r", "i", "p", "t", "i", "o", "n">>, ToLower(properties[i].k))
      has_name == \E i \in 1..Len(properties) :
                     /\ IsSubstr(<<"n", "a", "m", "e">>, ToLower(properties[i].k))
                     /\ ~IsSubstr(<<"c", "h", "i", "n", "e", "s", "e">>, ToLower(properties[i].k))
      standard_props ==
        (IF has_desc THEN <<>>
         ELSE <<Item(<<"d", "e", "s", "c">>, Record([name |-> <<"d", "e", "s", "c", "(", "miao2", "shu4", ")">>, type |-> <<"T", "e", "x", "t">>,
                                        constraint |-> <<"N", "o", "t", "N", "u", "l", "l">>]))>>)
        \o (IF has_name THEN <<>>
            ELSE <<Item(<<"n", "a", "m", "e">>, Record([name |-> <<"n", "a", "m", "e", "(", "ming2", "cheng1", ")">>, type |-> <<"T", "e", "x", "t">>,
                                           constraint |-> <<"N", "o", "t", "N", "u", "l", "l">>]))>>)
      all_properties == Update(standard_props, properties)
      Label(key, d) ==
        GetOr(d, "name", key \o <<"(">> \o GetOr(d, "chinese_name", key) \o <<")">>)
      Desc(d, count) ==
        IF GetOr(d, "description", <<>>) # <<>>
        THEN <<SchemaLine("desc", " ", count, <<"d", "e", "s", "c">>, d.description)>> ELSE <<>>
      Constraint(d, count) ==
        IF GetOr(d, "constraint", <<>>) # <<>>
        THEN <<SchemaLine("constraint", " ", count, <<"c", "o", "n", "s", "t", "r", "a", "i", "n", "t">>, d.constraint)>> ELSE <<>>
      \* the properties of a property (label key(chinese_name)) or of a relation
      Sub(items, of) ==
        LET sub[i \in 0..Len(items)] ==
              IF i = 0 THEN <<>>
              ELSE sub[i - 1]
                   \o <<SchemaLine("property", " ", 16,
                          IF of = "property"
                          THEN items[i].k \o <<"(">>
                                 \o GetOr(items[i].v.d, "chinese_name", items[i].k) \o <<")">>
                          ELSE Label(items[i].k, items[i].v.d),
                          items[i].v.d.type)>>
                   \o Desc(items[i].v.d, 20) \o Constraint(items[i].v.d, 20)
        IN IF items = <<>> THEN <<>>
           ELSE <<SchemaLine("properties", " ", 12, <<"p", "r", "o", "p", "e", "r", "t", "i", "e", "s">>, None)>> \o sub[Len(items)]
      props[i \in 0..Len(all_properties)] ==
        IF i = 0 THEN <<>>
        ELSE props[i - 1]
             \o <<SchemaLine("property", " ", 8,
                             Label(all_properties[i].k, all_properties[i].v.d),
                             all_properties[i].v.d.type)>>
             \o Desc(all_properties[i].v.d, 12) \o Constraint(all_properties[i].v.d, 12)
             \o Sub(GetOr(all_properties[i].v.d, "properties", <<>>), "property")
      rels[i \in 0..Len(relations)] ==
        IF i = 0 THEN <<>>
        ELSE rels[i - 1]
             \o <<SchemaLine("relation", " ", 8, Label(relations[i].k, relations[i].v.d),
                             relations[i].v.d.target)>>
             \o Desc(relations[i].v.d, 12)
             \o Sub(GetOr(relations[i].v.d, "properties", <<>>), "relation")
             \o Constraint(relations[i].v.d, 12)
      \* prop_def.get on a str raises AttributeError, prop_def['type'] and
      \* relation_def['target'] on a dict without the key raise KeyError
      Defined(items, field) ==
        \A i \in 1..Len(items) :
           /\ HasField(items[i].v, field)
           /\ \A j \in 1..Len(GetOr(items[i].v.d, "properties", <<>>)) :
                 HasField(items[i].v.d.properties[j].v, "type")
  IN IF ~(Defined(all_properties, "type") /\ Defined(relations, "target"))
     THEN [raised |-> TRUE, lines |-> <<>>]
     ELSE [raised |-> FALSE,
           lines |-> <<SchemaLine("entity", "", 0, <<entity.name, entity.chinese_name>>,
                                  entity.openspg_type)>>
             \o (IF entity.description # <<>>
                 THEN <<SchemaLine("desc", " ", 4, <<"d", "e", "s", "c">>, entity.description)>> ELSE <<>>)
             \o (IF all_properties # <<>>
                 THEN <<SchemaLine("properties", " ", 4, <<"p", "r", "o", "p", "e", "r", "t", "i", "e", "s">>, None)>>
                      \o props[Len(all_properties)]
                 ELSE <<>>)
             \o (IF relations # <<>>
                 THEN <<SchemaLine("relations", " ", 4, <<"r", "e", "l", "a", "t", "i", "o", "n", "s">>, None)>>
                      \o rels[Len(relations)]
                 ELSE <<>>)]

-----------------------------------------------------------------------------
(* The normalizer and the serializers as a state machine *)

\* The longest answer handed to the normalizer
MaxAnswer == 2

\* The answers: one record, followed by records that hold nothing but a
\* short name.  A record is who it is (a well-formed english_name; a
\* name with an underscore, with a leading digit, in Chinese, with a space,
\* in the form name(display name), of one character, of 31 characters; a
\* lower-case english_name) and what it holds (nothing; a description, a
\* plain property and a plain-string relation; a relation object; the kind
\* Concept with a full property and a full relation)
Answers ==
  LET Who ==
        { [english_name |-> <<"P", "u", "m", "p">>, chinese_name |-> <<"beng4">>],
          [english_name |-> <<"P", "u", "m", "p">>, name |-> <<"p", "u", "m", "p", "_", "1">>],
          [name |-> <<"a", "b", "_", "c">>],
          [name |-> <<"9", "a", "b">>],
          [name |-> <<"hun4", "ning2", "tu3">>, chinese_name |-> <<"hun4", "ning2", "tu3">>],
          [name |-> <<"a", " ", "b">>],
          [name |-> <<"P", "u", "m", "p", "(", "beng4", ")">>],
          [name |-> <<"a">>],
          [name |-> [i \in 1..31 |-> "a"]],
          [english_name |-> <<"p", "u", "m", "p">>] }
      What ==
        { [category |-> <<" ", "O", "t", "h", "e", "r", "s", " ">>],
          [description |-> <<" ", "d", " ">>,
           properties |-> <<Item(<<"C", "o", "l", "o", "r">>, Plain(<<"hong2">>))>>,
           relations |-> <<Item(<<"U", "s", "e", "d", "I", "n">>, Plain(<<"V", "a", "l", "v", "e">>))>>],
          [relations |-> <<Item(<<"u", "s", "e", "d", "I", "n">>,
                                Record([target |-> <<"V", "a", "l", "v", "e">>, constraint |-> <<"N", "o", "t", "N", "u", "l", "l">>]))>>],
          [openspg_type |-> "ConceptType",
           properties |-> <<Item(<<"s", "i", "z", "e">>,
                                 Record([name |-> <<"s", "i", "z", "e", "(", "da4", "xiao3", ")">>, type |-> <<"i", "n", "t", "e", "g", "e", "r">>,
                                         description |-> <<"d">>,
                                         properties |-> <<Item(<<"zhi2">>,
                                                               Record([type |-> <<"F", "l", "o", "a", "t">>]))>>]))>>,
           relations |-> <<Item(<<"i", "s", "A">>,
                                Record([name |-> <<"i", "s", "A", "(", "shu3", "yu2", ")">>, target |-> <<"P", "u", "m", "p">>,
                                        properties |-> <<Item(<<"s", "i", "n", "c", "e">>,
                                                              Record([type |-> <<"S", "T", "D", ".", "D", "a", "t", "e">>]))>>]))>>] }
      RawPool == {who @@ what : who \in Who, what \in What}
      Bare == {x \in RawPool : DOMAIN x = {"name", "category"} /\ Len(x.name) \in {3, 4}}
      RECURSIVE Tails(_)
      Tails(n) ==
        IF n = 0 THEN {<<>>}
        ELSE {<<>>} \cup {<<b>> \o t : b \in Bare, t \in Tails(n - 1)}
  IN {<<r>> \o t : r \in RawPool, t \in Tails(MaxAnswer - 1)}

\* The record ingested by the manager under SpecGen: a concept that holds a
\* raw property value and a relation
GenArgPool ==
  { Args("a_bab", "dX", <<>>,
         <<Item("color", Plain("red"))>>,
         <<Item("r1", Record([name |-> "n1", target |-> "Ba"]))>>,
         "ConceptType") }

\* extract_entities_from_chunk(chunk): the client the generator was built
\* with answers the chunk; LLMClient returns what _parse_entity_response
\* keeps of the answer, another client returns the records as they are.
\* The generator keeps nothing from one chunk to the next: a behaviour
\* follows one chunk.
Extract(answer, client) ==
  /\ genPc = "idle"
  /\ Len(answer) <= MaxAnswer
  /\ response' = answer
  /\ llm_client' = client
  /\ raw_entities' = IF client = "LLMClient" THEN ParseEntityResponse(answer) ELSE answer
  /\ standardized_entities' = ExtractEntitiesFromChunk(raw_entities')
  /\ schema_string' = [entity |-> 0, text |-> [raised |-> FALSE, lines |-> <<>>]]
  /\ genPc' = "extracted"
  /\ UNCHANGED <<mgrVars, sortVars>>

\* generate_entity_schema_string(standardized_entities[i])
GenerateEntitySchema(i) ==
  /\ genPc # "idle"
  /\ i \in 1..Len(standardized_entities)
  /\ schema_string' =
       [entity |-> i, text |-> GenerateEntitySchemaString(standardized_entities[i])]
  /\ genPc' = "generated"
  /\ UNCHANGED <<mgrVars, sortVars, response, llm_client, raw_entities, standardized_entities>>

NextGen ==
  \/ \E answer \in Answers, client \in {"LLMClient", "other"} : Extract(answer, client)
  \/ \E i \in 1..MaxAnswer : GenerateEntitySchema(i)
  \/ \E a \in GenArgPool : Add(a)

SpecGen == Init /\ [][NextGen]_vars

-----------------------------------------------------------------------------
(* Properties *)

\* The target a stored relation value points at (None when it names none)
TargetOf(v) ==
  IF HasField(v, "target") THEN v.d.target ELSE IF v.t = "str" THEN v.s ELSE None

\* Every relation of every entity points at a key of the entity map
RefIntegrity(ents) ==
  \A i \in 1..Len(ents) : \A j \in 1..Len(ents[i].v.relations) :
     TargetOf(ents[i].v.relations[j].v) \in KeySet(ents)

\* The relations of the map as (entity key, relation key, target) triples
Edges(ents) ==
  UNION {{<<ents[i].k, ents[i].v.relations[j].k, TargetOf(ents[i].v.relations[j].v)>> :
            j \in 1..Len(ents[i].v.relations)} : i \in 1..Len(ents)}

\* C1: when validate_and_update_relations returns, the target of every
\* relation stored on every live entity is a key of the entity map.
C1_RefIntegrityAfterValidate == lastOp = "validate" => RefIntegrity(entities)

\* A validate pass that met a dangling target (it created a stub) and a
\* display-name target (it rewrote an edge)
C1_Witness ==
  /\ lastOp = "validate"
  /\ ~RefIntegrity(pre)
  /\ ret.created # <<>>
  /\ \E e \in Edges(pre) : e[3] # None /\ e \notin Edges(entities)
                           /\ \E f \in Edges(entities) : f[1] = e[1] /\ f[2] = e[2]

\* What the claims compare of an entity map: the live keys and, per key, the
\* properties and the relations (with their aliases), whatever the order
Graph(ents) ==
  [k \in KeySet(ents) |->
     [properties |-> AsMap(Get(ents, k).properties),
      relations  |-> AsMap(Get(ents, k).relations)]]

\* C2: after merge_and_remove_duplicate_entities followed by
\* validate_and_update_relations, running the same two passes a second time
\* leaves the same live keys, properties, relations and aliases.
C2_CombinedPassIdempotent ==
  (lastOp = "validate" /\ prevOp = "merge")
    => Graph(ValidateAndUpdateRelations(
                MergeAndRemoveDuplicateEntities(entities).entities).entities)
       = Graph(entities)

\* C3: immediately after one merge pass, a second merge pass removes no entity
\* and changes no entity.
C3_MergeIdempotent ==
  lastOp = "merge"
    => /\ MergeAndRemoveDuplicateEntities(entities).total_removed = 0
       /\ MergeAndRemoveDuplicateEntities(entities).entities = entities

\* C4: immediately after one validate pass, a second validate pass creates no
\* stub and leaves every key, property and relation as it was.
C4_ValidateIdempotent ==
  lastOp = "validate"
    => /\ ValidateAndUpdateRelations(entities).created_entities = <<>>
       /\ Graph(ValidateAndUpdateRelations(entities).entities) = Graph(entities)

\* C5: for every duplicate cluster of a merge pass, exactly one member
\* survives, and every property key and relation key carried by a member
\* before the pass is a key of the survivor after the pass.
C5_NoInformationLoss ==
  lastOp = "merge"
    => \A i \in 1..Len(GroupSimilarEntities(pre)) :
         LET group == GroupSimilarEntities(pre)[i]
             members == {group[j] : j \in 1..Len(group)}
         IN /\ Cardinality(members \cap KeySet(entities)) = 1
            /\ \A s \in members \cap KeySet(entities) : \A m \in members :
                 /\ KeySet(Get(pre, m).properties) \subseteq KeySet(Get(entities, s).properties)
                 /\ KeySet(Get(pre, m).relations) \subseteq KeySet(Get(entities, s).relations)

\* A merge pass whose survivor took a property key and a relation key it did
\* not hold from the duplicates it replaced
C5_Witness ==
  /\ lastOp = "merge"
  /\ ret.removed # <<>>
  /\ \E s \in KeySet(entities) \cap KeySet(pre) :
       /\ KeySet(Get(entities, s).properties) # KeySet(Get(pre, s).properties)
       /\ KeySet(Get(entities, s).relations) # KeySet(Get(pre, s).relations)

\* a references b through a property type or a relation target
RefersTo(a, b) ==
  \/ \E i \in 1..Len(a.properties) : GetOr(a.properties[i].v, "type", "") = b.name
  \/ \E i \in 1..Len(a.relations) : GetOr(a.relations[i].v, "target", "") = b.name

\* A chain of at most k references leads from a to b
RECURSIVE Reaches(_, _, _, _)
Reaches(ents, a, b, k) ==
  /\ k > 0
  /\ \/ RefersTo(a, b)
     \/ \E i \in 1..Len(ents) : RefersTo(a, ents[i]) /\ Reaches(ents, ents[i], b, k - 1)

\* b stands before a in the list
Before(list, b, a) ==
  \E p \in 1..Len(list) : \E q \in 1..Len(list) : p < q /\ list[p] = b /\ list[q] = a

\* C6: in the list the sequencer returns, whenever A references B through a
\* property type or a relation target and no dependency cycle contains both,
\* B stands before A.
C6_TopologicalValidity ==
  sortPc = "done"
    => \A i \in 1..Len(sortIn) : \A j \in 1..Len(sortIn) :
         (/\ i # j
          /\ RefersTo(sortIn[i], sortIn[j])
          /\ ~Reaches(sortIn, sortIn[j], sortIn[i], Len(sortIn)))
           => Before(sorted_entities, sortIn[j], sortIn[i])

\* A finished call on a list that names an entity before one it references,
\* outside any cycle, next to a pair that is in a cycle
C6_Witness ==
  /\ sortPc = "done"
  /\ \E i \in 1..Len(sortIn) : \E j \in 1..Len(sortIn) :
       /\ i < j
       /\ RefersTo(sortIn[i], sortIn[j])
       /\ ~Reaches(sortIn, sortIn[j], sortIn[i], Len(sortIn))
       /\ Before(sorted_entities, sortIn[j], sortIn[i])
  /\ \E i \in 1..Len(sortIn) : \E j \in 1..Len(sortIn) :
       i # j /\ RefersTo(sortIn[i], sortIn[j]) /\ RefersTo(sortIn[j], sortIn[i])

\* The list holds every entity of the input exactly once
IsPermutation(list, input) ==
  /\ Len(list) = Len(input)
  /\ \A i \in 1..Len(input) : Cardinality({j \in 1..Len(list) : list[j] = input[i]}) = 1

\* C7: on every list of distinctly named entities, cycles included, the
\* sequencer returns, and what it returns is a permutation of the input.
C7_TerminatesWithPermutation ==
  <>(sortPc = "done" /\ IsPermutation(sorted_entities, sortIn))

\* A finished call on the three-entity cycle A -> B -> C -> A of property
\* types: a warning was logged and all three entities were returned
C7_Witness ==
  /\ sortPc = "done"
  /\ Len(sortIn) = 3
  /\ \A i \in 1..3 : sortIn[i].properties[1].v.type = sortIn[(i % 3) + 1].name
  /\ warnings > 0
  /\ IsPermutation(sorted_entities, sortIn)


C9_AtomicImportFailure ==
  (lastOp \in {"import_json", "import_yaml"} /\ ret.source = "supplied")
    => /\ ret.ok = "False"
       /\ entitiesType = "dict"
       /\ entities = pre
       /\ namespace = preNamespace

\* The keys of the entities of the map displayed under the name t
KeysDisplayed(ents, t) ==
  {ents[i].k : i \in {j \in 1..Len(ents) :
                       /\ Truthy(ents[j].v.name)
                       /\ ents[j].v.chinese_name = t}}

\* C10: after validate_and_update_relations, every relation whose target
\* before the pass was the display name of a live entity, if it is still
\* stored, stores the key of an entity displayed under that name, and no
\* stored target is anything but a key.
C10_DisplayNameCanonicalized ==
  lastOp = "validate"
    => /\ \A e \in Edges(pre) :
            (e[3] # None /\ KeysDisplayed(pre, e[3]) # {})
              => \A f \in Edges(entities) :
                   (f[1] = e[1] /\ f[2] = e[2]) => f[3] \in KeysDisplayed(pre, e[3])
       /\ \A f \in Edges(entities) : f[3] \in KeySet(entities)

\* A validate pass that met a plain-string relation and a record-form relation
\* whose target was a display name and no key, and stored both
C10_Witness ==
  /\ lastOp = "validate"
  /\ \A form \in {"str", "dict"} :
       \E i \in 1..Len(pre) : \E j \in 1..Len(pre[i].v.relations) :
          LET rel == pre[i].v.relations[j]
              t == TargetOf(rel.v)
          IN /\ rel.v.t = form
             /\ t # None
             /\ t \notin KeySet(pre)
             /\ KeysDisplayed(pre, t) # {}
             /\ \E f \in Edges(entities) : f[1] = pre[i].k /\ f[2] = rel.k

\* C11: when a relation target before validate_and_update_relations is a
\* valid string that is neither a live key nor a live display name, after the
\* pass the entity map holds, under exactly that target, an entity reported as
\* created, with auto_created true, openspg_type EntityType, no relations and
\* exactly the properties desc and name; and the relation still points at that
\* key (or, folded by target, the first relation of its entity that pointed
\* there does).
C11_StubCreation ==
  lastOp = "validate"
    => \A e \in Edges(pre) :
         (~InvalidTarget(e[3]) /\ e[3] \notin KeySet(pre) /\ KeysDisplayed(pre, e[3]) = {})
           => /\ Has(entities, e[3])
              /\ \E i \in 1..Len(ret.created) : ret.created[i] = e[3]
              /\ Get(entities, e[3]).name = e[3]
              /\ Get(entities, e[3]).auto_created
              /\ Get(entities, e[3]).openspg_type = "EntityType"
              /\ Get(entities, e[3]).relations = <<>>
              /\ KeySet(Get(entities, e[3]).properties) = {"desc", "name"}
              /\ \E f \in Edges(entities) : f[1] = e[1] /\ f[3] = e[3]
              /\ \/ e \in Edges(entities)
                 \/ \E g \in Edges(pre) : g[1] = e[1] /\ g[2] # e[2] /\ g[3] = e[3]

\* A validate pass that met a plain-string relation to a name no entity bears
\* and created the stub for it
C11_Witness ==
  /\ lastOp = "validate"
  /\ \E i \in 1..Len(pre) : \E j \in 1..Len(pre[i].v.relations) :
       /\ pre[i].v.relations[j].v.t = "str"
       /\ pre[i].v.relations[j].v.s \notin KeySet(pre)
       /\ KeysDisplayed(pre, pre[i].v.relations[j].v.s) = {}
       /\ Has(entities, pre[i].v.relations[j].v.s)
       /\ Get(entities, pre[i].v.relations[j].v.s).auto_created
       /\ ret.created = <<pre[i].v.relations[j].v.s>>

\* What the pass resolves a target to: the key filed under it as a display
\* name when there is one (lines 523-526, 569-571), else the target itself
ResolvedTarget(ents, t) ==
  IF Has(ChineseToEnglish(ents, <<>>), t) THEN Get(ChineseToEnglish(ents, <<>>), t) ELSE t

\* The display name of a relation entry: its name, or its key when it has none
RelationName(rel) == IF HasField(rel.v, "name") THEN rel.v.d.name ELSE rel.k

\* C12: after validate_and_update_relations no entity holds two relation
\* entries with the same target; and where two relation keys of one entity
\* resolved to the same target, the first of them in the entity's relation
\* order is still held, points at that target, and lists the display name of
\* every later one in its aliases.
C12_MergeByTarget ==
  lastOp = "validate"
    => /\ \A f \in Edges(entities) : \A g \in Edges(entities) :
            (f[1] = g[1] /\ f[3] = g[3]) => f[2] = g[2]
       /\ \A i \in 1..Len(pre) : \A j \in 1..Len(pre[i].v.relations) :
            \A k \in (j + 1)..Len(pre[i].v.relations) :
              LET rels == pre[i].v.relations
                  tj == TargetOf(rels[j].v)
                  tk == TargetOf(rels[k].v)
                  after == Get(entities, pre[i].k).relations
              IN (/\ ~InvalidTarget(tj) /\ ~InvalidTarget(tk)
                  /\ ResolvedTarget(pre, tj) = ResolvedTarget(pre, tk)
                  /\ \A h \in 1..(j - 1) :
                        InvalidTarget(TargetOf(rels[h].v))
                        \/ ResolvedTarget(pre, TargetOf(rels[h].v)) # ResolvedTarget(pre, tj))
                 => /\ Has(after, rels[j].k)
                    /\ ~Has(after, rels[k].k)
                    /\ TargetOf(Get(after, rels[j].k)) = ResolvedTarget(pre, tj)
                    /\ HasField(Get(after, rels[j].k), "aliases")
                    /\ \E a \in 1..Len(Get(after, rels[j].k).d.aliases) :
                          Get(after, rels[j].k).d.aliases[a] = RelationName(rels[k])

\* A validate pass that folded a record-form relation into the plain-string
\* relation before it that pointed at the same entity
C12_Witness ==
  /\ lastOp = "validate"
  /\ \E i \in 1..Len(pre) :
       /\ Len(pre[i].v.relations) = 2
       /\ pre[i].v.relations[1].v.t = "str"
       /\ HasField(pre[i].v.relations[2].v, "name")
       /\ Len(Get(entities, pre[i].k).relations) = 1
       /\ HasField(Get(entities, pre[i].k).relations[1].v, "aliases")
       /\ Get(entities, pre[i].k).relations[1].v.d.aliases = <<pre[i].v.relations[2].v.d.name>>

\* C13: every relation key an entity holds before
\* validate_and_update_relations is, after the pass, still a relation key of
\* the entity, or its display name is in the aliases of a relation the entity
\* kept with the target it resolved to.
C13_NoEdgeDropped ==
  lastOp = "validate"
    => \A i \in 1..Len(pre) : \A j \in 1..Len(pre[i].v.relations) :
         LET rel == pre[i].v.relations[j]
             after == Get(entities, pre[i].k).relations
         IN \/ Has(after, rel.k)
            \/ \E m \in 1..Len(after) :
                 /\ HasField(after[m].v, "aliases")
                 /\ \E a \in 1..Len(after[m].v.d.aliases) :
                       after[m].v.d.aliases[a] = RelationName(rel)
                 /\ TargetOf(rel.v) # None
                 /\ TargetOf(after[m].v) = ResolvedTarget(pre, TargetOf(rel.v))

\* C14: if every relation target is a live key before
\* merge_and_remove_duplicate_entities, every relation target is a live key
\* when the pass returns.
C14_MergeKeepsRefIntegrity ==
  (lastOp = "merge" /\ RefIntegrity(pre)) => RefIntegrity(entities)

\* C15: when merge_and_remove_duplicate_entities has folded an entity into a
\* survivor and a relation of the graph still targets the folded entity's key,
\* the validate_and_update_relations pass that follows leaves that relation
\* targeting the survivor's key, and the folded key is no live key.
C15_RepointedAfterMerge ==
  lastOp = "merge"
    => \A i \in 1..Len(GroupSimilarEntities(pre)) :
         LET group == GroupSimilarEntities(pre)[i]
             survivor == SelectPrimaryEntity(pre, group)
             validated == ValidateAndUpdateRelations(entities).entities
         IN \A n \in 1..Len(group) : \A e \in Edges(entities) :
              (group[n] # survivor /\ e[3] = group[n])
                => /\ group[n] \notin KeySet(validated)
                   /\ \A f \in Edges(validated) :
                        (f[1] = e[1] /\ f[2] = e[2]) => f[3] = survivor

\* C16: of two ingested entities with one non-empty display name, at most one
\* is still a live key after a merge_and_remove_duplicate_entities pass; and
\* when the graph held only the two, the one left is the one the score selects.
C16_SameDisplayNameOneSurvivor ==
  lastOp = "merge"
    => \A i \in 1..Len(pre) : \A j \in (i + 1)..Len(pre) :
         (/\ ~pre[i].v.auto_created /\ ~pre[j].v.auto_created
          /\ Truthy(pre[i].v.chinese_name)
          /\ pre[i].v.chinese_name = pre[j].v.chinese_name)
           => /\ ~(Has(entities, pre[i].k) /\ Has(entities, pre[j].k))
              /\ Len(pre) = 2
                   => KeySeq(entities) = <<SelectPrimaryEntity(pre, KeySeq(pre))>>

\* C17: add_or_update_entity on a key that is already live returns the action
\* 'updated', leaves the set of live keys as it was, and every property key
\* and relation key an entity held before the call it still holds after it.
C17_UpdateMergeKeepsKeys ==
  lastOp = "add"
    => /\ ret.action = "updated" <=> Len(entities) = Len(pre)
       /\ ret.action = "updated"
            => /\ KeySet(entities) = KeySet(pre)
               /\ \A i \in 1..Len(pre) :
                    /\ KeySet(pre[i].v.properties)
                         \subseteq KeySet(Get(entities, pre[i].k).properties)
                    /\ KeySet(pre[i].v.relations)
                         \subseteq KeySet(Get(entities, pre[i].k).relations)

\* C18: for every entity of kind ConceptType, the text each serializer
\* produces for it (SchemaManager._generate_entity_schema_string for an
\* entity of the manager, SchemaGenerator.generate_entity_schema_string for a
\* standardized entity) is the header line and the hypernymPredicate line,
\* with no properties section and no relations section
C18_ConceptHasNoBody ==
  LET ConceptText(text) ==
        /\ ~text.raised
        /\ Len(text.lines) = 2
        /\ text.lines[1].kind = "entity"
        /\ text.lines[2].kind = "hypernymPredicate"
  IN /\ \A i \in 1..Len(entities) :
           entities[i].v.openspg_type = "ConceptType"
             => ConceptText(MgrGenerateEntitySchemaString(entities[i].v))
     /\ genPc = "generated"
          => (standardized_entities[schema_string.entity].openspg_type = "ConceptType"
                => ConceptText(schema_string.text))

\* C19: every record accepted by the normalizer (kept by
\* _parse_entity_response and returned by _standardize_entity) has a
\* canonical key that is non-empty, starts with a letter, holds only letters
\* and digits and is at most 50 characters long; a record whose supplied key
\* (its english_name, or its name when it has none) does not match is rejected
C19_KeyGrammar ==
  LET Grammar(key) ==
        /\ key # <<>>
        /\ Char(key[1]).class \in {"upper", "lower"}
        /\ \A i \in 1..Len(key) : Char(key[i]).class \in {"upper", "lower", "digit"}
        /\ Len(key) <= 50
      Supplied(record) ==
        IF GetOr(record, "english_name", <<>>) # <<>> THEN record.english_name
        ELSE GetOr(record, "name", <<>>)
  IN (genPc # "idle" /\ llm_client = "LLMClient")
       => /\ \A i \in 1..Len(standardized_entities) : Grammar(standardized_entities[i].name)
          /\ (Len(response) = 1 /\ ~Grammar(Supplied(response[1])))
               => standardized_entities = <<>>

\* C20: when the relation value of a record is a plain string S, the
\* relation _build_entity_relations produces for it has target S, the target
\* it has when the record supplies an object with target S
C20_PlainStringIsTarget ==
  genPc # "idle" =>
    \A i \in 1..Len(raw_entities) :
       \A r \in 1..Len(GetOr(raw_entities[i], "relations", <<>>)) :
          LET item == raw_entities[i].relations[r]
              \* the standardized entity made from raw_entities[k], if any
              StandardizedOf(k) ==
                IF StandardizeEntity(raw_entities[k]) = <<>> THEN <<>>
                ELSE <<standardized_entities[
                          Cardinality({j \in 1..k : StandardizeEntity(raw_entities[j]) # <<>>})]>>
              produced(e) == Get(e.relations, StandardizeRelationName(item.k)).d
              as_object == [raw_entities[i] EXCEPT
                              !.relations = <<Item(item.k, Record([target |-> item.v.s]))>>]
          IN (item.v.t = "str" /\ StandardizedOf(i) # <<>>)
               => /\ produced(StandardizedOf(i)[1]).target = item.v.s
                  /\ produced(StandardizedOf(i)[1]).target
                       = produced(StandardizeEntity(as_object)[1]).target

\* C21: a key that a merge pass has selected as the survivor of a group is a
\* live key in every later state, whatever add_or_update_entity,
\* merge_and_remove_duplicate_entities and validate_and_update_relations calls
\* follow.
C21_StableSurvivor == survivors \subseteq KeySet(entities)

\* C22: when a relation target before validate_and_update_relations equals
\* the key of a live entity and also the display name of a different live
\* entity, the relation is resolved to the entity whose key it equals: after
\* the pass its target is unchanged.
C22_KeyBeforeDisplayName ==
  lastOp = "validate"
    => \A e \in Edges(pre) :
         (/\ e[3] \in KeySet(pre)
          /\ \E i \in 1..Len(pre) : pre[i].k # e[3] /\ pre[i].v.chinese_name = e[3])
           => \A f \in Edges(entities) : (f[1] = e[1] /\ f[2] = e[2]) => f[3] = e[3]

\* C23: in the text SchemaManager.generate_schema_string produces, whenever a
\* live entity A references a live entity B through a relation target or a
\* property type and no dependency cycle contains both, the block of B stands
\* before the block of A.
C23_ManagerSerializationOrder ==
  LET out == GenerateSchemaString(entities, namespace)
      Refers(a, b) ==
        \/ \E i \in 1..Len(a.relations) : TargetOf(a.relations[i].v) = b.name
        \/ \E i \in 1..Len(a.properties) :
              HasField(a.properties[i].v, "type") /\ a.properties[i].v.d.type = b.name
      RECURSIVE Chain(_, _, _)
      Chain(a, b, k) ==
        /\ k > 0
        /\ \/ Refers(a, b)
           \/ \E i \in 1..Len(entities) :
                 Refers(a, entities[i].v) /\ Chain(entities[i].v, b, k - 1)
      BlockOf(name) == CHOOSE p \in 1..Len(out.blocks) : out.blocks[p].entity = name
  IN (entitiesType = "dict" /\ ~out.raised)
       => \A i \in 1..Len(entities) : \A j \in 1..Len(entities) :
            (/\ i # j
             /\ Refers(entities[i].v, entities[j].v)
             /\ ~Chain(entities[j].v, entities[i].v, Len(entities)))
              => BlockOf(entities[j].v.name) < BlockOf(entities[i].v.name)

\* C24: of every duplicate cluster of a merge pass the member left live is the
\* one _select_primary_entity returns for the cluster: its score is the
\* highest of the cluster, and every member before it in the cluster's order
\* has a lower score.
C24_CanonicalSelection ==
  lastOp = "merge"
    => \A i \in 1..Len(GroupSimilarEntities(pre)) :
         LET group == GroupSimilarEntities(pre)[i]
         IN /\ \E n \in 1..Len(group) : Has(entities, group[n])
            /\ \A n \in 1..Len(group) :
                 Has(entities, group[n])
                   => /\ group[n] = SelectPrimaryEntity(pre, group)
                      /\ \A m \in 1..Len(group) : Score(pre, group[m]) <= Score(pre, group[n])
                      /\ \A m \in 1..(n - 1) : Score(pre, group[m]) < Score(pre, group[n])

\* A merge pass over a cluster whose first member scores lower than two later
\* members with one score: the first of the two is live, the other is not
C24_Witness ==
  /\ lastOp = "merge"
  /\ \E i \in 1..Len(GroupSimilarEntities(pre)) :
       LET group == GroupSimilarEntities(pre)[i]
       IN \E a \in 2..Len(group) : \E b \in (a + 1)..Len(group) :
            /\ Score(pre, group[a]) = Score(pre, group[b])
            /\ Score(pre, group[1]) < Score(pre, group[a])
            /\ Has(entities, group[a])
            /\ ~Has(entities, group[b])
            /\ ~Has(entities, group[1])

\* C25: when a property key or a relation key is defined on the survivor of a
\* cluster and on a duplicate folded into it, after the merge pass the
\* survivor's definition holds every sub-field value it held non-empty, and
\* every sub-field it lacked or held empty has the value of the first
\* duplicate, in cluster order, that defines it.
C25_CollisionRule ==
  LET Empty(f, v) == IF f = "aliases" THEN v = <<>> ELSE v \in {"", None}
      First(S) == CHOOSE n \in S : \A m \in S : n <= m
      \* mine: the survivor's map before the pass; after: its map after the
      \* pass; theirs: the maps of the duplicates in cluster order
      Rule(mine, after, theirs) ==
        \A x \in 1..Len(mine) :
          LET key == mine[x].k
              holders == {n \in 1..Len(theirs) :
                            Has(theirs[n], key) /\ Get(theirs[n], key).t = "dict"}
          IN (mine[x].v.t = "dict" /\ holders # {})
               => /\ Has(after, key)
                  /\ Get(after, key).t = "dict"
                  /\ \A f \in DOMAIN mine[x].v.d
                               \cup UNION {DOMAIN Get(theirs[n], key).d : n \in holders} :
                       LET defs == {n \in holders : f \in DOMAIN Get(theirs[n], key).d}
                       IN /\ f \in DOMAIN Get(after, key).d
                          /\ IF f \in DOMAIN mine[x].v.d /\ ~Empty(f, mine[x].v.d[f])
                             THEN Get(after, key).d[f] = mine[x].v.d[f]
                             ELSE defs # {}
                                    => Get(after, key).d[f] = Get(theirs[First(defs)], key).d[f]
  IN lastOp = "merge"
       => \A i \in 1..Len(GroupSimilarEntities(pre)) :
            LET group == GroupSimilarEntities(pre)[i]
                s == SelectPrimaryEntity(pre, group)
                dups == SelectSeq(group, LAMBDA e : e # s)
            IN /\ Rule(Get(pre, s).properties, Get(entities, s).properties,
                       [n \in 1..Len(dups) |-> Get(pre, dups[n]).properties])
               /\ Rule(Get(pre, s).relations, Get(entities, s).relations,
                       [n \in 1..Len(dups) |-> Get(pre, dups[n]).relations])

\* C25 as amended: the survivor's definition holds every sub-field value it
\* held non-empty; a sub-field it lacked or held empty has the first non-empty
\* value a duplicate, in cluster order, defines for it, or, when every
\* duplicate that defines it holds it empty, the value of the last of them;
\* a sub-field no duplicate defines is as it was.
C25_CollisionRuleAmended ==
  LET Empty(f, v) == IF f = "aliases" THEN v = <<>> ELSE v \in {"", None}
      First(S) == CHOOSE n \in S : \A m \in S : n <= m
      Last(S) == CHOOSE n \in S : \A m \in S : m <= n
      Rule(mine, after, theirs) ==
        \A x \in 1..Len(mine) :
          LET key == mine[x].k
              holders == {n \in 1..Len(theirs) :
                            Has(theirs[n], key) /\ Get(theirs[n], key).t = "dict"}
          IN (mine[x].v.t = "dict" /\ holders # {})
               => /\ Has(after, key)
                  /\ Get(after, key).t = "dict"
                  /\ \A f \in DOMAIN mine[x].v.d
                               \cup UNION {DOMAIN Get(theirs[n], key).d : n \in holders} :
                       LET defs == {n \in holders : f \in DOMAIN Get(theirs[n], key).d}
                           full == {n \in defs : ~Empty(f, Get(theirs[n], key).d[f])}
                       IN /\ f \in DOMAIN Get(after, key).d
                          /\ Get(after, key).d[f]
                               = IF f \in DOMAIN mine[x].v.d /\ ~Empty(f, mine[x].v.d[f])
                                   THEN mine[x].v.d[f]
                                 ELSE IF full # {} THEN Get(theirs[First(full)], key).d[f]
                                 ELSE IF defs # {} THEN Get(theirs[Last(defs)], key).d[f]
                                 ELSE mine[x].v.d[f]
  IN lastOp = "merge"
       => \A i \in 1..Len(GroupSimilarEntities(pre)) :
            LET group == GroupSimilarEntities(pre)[i]
                s == SelectPrimaryEntity(pre, group)
                dups == SelectSeq(group, LAMBDA e : e # s)
            IN /\ Rule(Get(pre, s).properties, Get(entities, s).properties,
                       [n \in 1..Len(dups) |-> Get(pre, dups[n]).properties])
               /\ Rule(Get(pre, s).relations, Get(entities, s).relations,
                       [n \in 1..Len(dups) |-> Get(pre, dups[n]).relations])

\* A merge pass that folded two duplicates into a survivor whose relation r2
\* had no constraint: the first duplicate held it empty, the second held a
\* value, and the survivor has the value of the second, its own name and target
C25_Witness ==
  /\ lastOp = "merge"
  /\ \E i \in 1..Len(GroupSimilarEntities(pre)) :
       LET group == GroupSimilarEntities(pre)[i]
           s == SelectPrimaryEntity(pre, group)
           dups == SelectSeq(group, LAMBDA e : e # s)
       IN /\ Len(dups) = 2
          /\ Has(Get(pre, s).relations, "r2")
          /\ "constraint" \notin DOMAIN Get(Get(pre, s).relations, "r2").d
          /\ Has(Get(pre, dups[1]).relations, "r2")
          /\ Get(Get(pre, dups[1]).relations, "r2").d.constraint = ""
          /\ Has(Get(pre, dups[2]).relations, "r2")
          /\ Get(Get(pre, dups[2]).relations, "r2").d.constraint = "NotNull"
          /\ Get(Get(entities, s).relations, "r2").d.constraint = "NotNull"
          /\ Get(Get(entities, s).relations, "r2").d.name
               = Get(Get(pre, s).relations, "r2").d.name
          /\ Get(Get(pre, dups[1]).relations, "r2").d.name
               # Get(Get(pre, dups[2]).relations, "r2").d.name

\* C26: in every state reached by add_or_update_entity, merge and validate
\* calls, an entity whose auto_created flag is true has a key that no call of
\* add_or_update_entity was given; a stub that has received its own record is
\* no longer flagged.
C26_AutoCreatedMeaning ==
  entitiesType = "dict"
    => \A i \in 1..Len(entities) : entities[i].v.auto_created => entities[i].k \notin ingested

\* C27: after any sequence of add_or_update_entity and
\* validate_and_update_relations calls, the aliases of every relation of every
\* entity hold no display name more than once.
C27_AliasesAreASet ==
  entitiesType = "dict"
    => \A i \in 1..Len(entities) : \A j \in 1..Len(entities[i].v.relations) :
         HasField(entities[i].v.relations[j].v, "aliases")
           => \A a \in 1..Len(entities[i].v.relations[j].v.d.aliases) :
                \A b \in 1..Len(entities[i].v.relations[j].v.d.aliases) :
                  entities[i].v.relations[j].v.d.aliases[a]
                    = entities[i].v.relations[j].v.d.aliases[b] => a = b

\* C28: validate_and_update_relations removes no live key and replaces no
\* entity that existed before the pass; every field of such an entity other
\* than its relations (description, display name, kind, properties) is as it
\* was; every entity added is a stub, reported as created, under a key that
\* was not live.
C28_ValidationFrame ==
  lastOp = "validate"
    => /\ Len(pre) <= Len(entities)
       /\ \A i \in 1..Len(pre) :
            /\ entities[i].k = pre[i].k
            /\ [entities[i].v EXCEPT !.relations = pre[i].v.relations] = pre[i].v
       /\ \A i \in (Len(pre) + 1)..Len(entities) :
            /\ entities[i].k \notin KeySet(pre)
            /\ entities[i].v = StubEntity(entities[i].k)
            /\ \E c \in 1..Len(ret.created) : ret.created[c] = entities[i].k

\* A validate pass over relations to a live key, to a live display name and to
\* a name no entity bears: it rewrote a target and added a stub
C28_Witness ==
  /\ lastOp = "validate"
  /\ Len(entities) > Len(pre)
  /\ \E e \in Edges(pre) : e[3] \in KeySet(pre)
  /\ \E i \in 1..Len(pre) :
       /\ Len(pre[i].v.relations) = Len(entities[i].v.relations)
       /\ \E j \in 1..Len(pre[i].v.relations) :
            TargetOf(pre[i].v.relations[j].v) # TargetOf(entities[i].v.relations[j].v)

\* C29: in one merge_and_remove_duplicate_entities pass the duplicate groups
\* are pairwise disjoint, the survivor of each group is live afterwards, no
\* key is reported removed twice, the number of live entities after the pass
\* is the number before minus total_removed, and every entity that belongs to
\* no group is unchanged.
C29_MergeFrameAndAccounting ==
  lastOp = "merge"
    => /\ \A i, j \in 1..Len(GroupSimilarEntities(pre)) :
            i # j => \A a \in 1..Len(GroupSimilarEntities(pre)[i]) :
                       \A b \in 1..Len(GroupSimilarEntities(pre)[j]) :
                         GroupSimilarEntities(pre)[i][a] # GroupSimilarEntities(pre)[j][b]
       /\ \A i \in 1..Len(GroupSimilarEntities(pre)) :
            Has(entities, SelectPrimaryEntity(pre, GroupSimilarEntities(pre)[i]))
       /\ \A a, b \in 1..Len(ret.removed) : a # b => ret.removed[a] # ret.removed[b]
       /\ Len(entities) = Len(pre) - MergeAndRemoveDuplicateEntities(pre).total_removed
       /\ MergeAndRemoveDuplicateEntities(pre).total_removed = Len(ret.removed)
       /\ \A k \in KeySet(pre) :
            (\A i \in 1..Len(GroupSimilarEntities(pre)) :
               \A a \in 1..Len(GroupSimilarEntities(pre)[i]) :
                 GroupSimilarEntities(pre)[i][a] # k)
              => Has(entities, k) /\ Get(entities, k) = Get(pre, k)

\* A merge pass over two groups that deleted a key of each and left an entity
\* of no group
C29_Witness ==
  /\ lastOp = "merge"
  /\ Len(GroupSimilarEntities(pre)) >= 2
  /\ Len(ret.removed) >= 2
  /\ \E k \in KeySet(pre) :
       /\ \A i \in 1..Len(GroupSimilarEntities(pre)) :
            \A a \in 1..Len(GroupSimilarEntities(pre)[i]) :
              GroupSimilarEntities(pre)[i][a] # k
       /\ Has(entities, k)

\* C30: in every state reached by add_or_update_entity,
\* merge_and_remove_duplicate_entities and validate_and_update_relations the
\* entity stored under a key k has the name k, and a target that a validate
\* pass has rewritten is a key of the entity map.
C30_KeyEqualsName ==
  /\ entitiesType = "dict"
       => \A i \in 1..Len(entities) : entities[i].v.name = entities[i].k
  /\ lastOp = "validate"
       => \A i \in 1..Len(pre) : \A j \in 1..Len(pre[i].v.relations) :
            (/\ Has(entities[i].v.relations, pre[i].v.relations[j].k)
             /\ TargetOf(Get(entities[i].v.relations, pre[i].v.relations[j].k))
                  # TargetOf(pre[i].v.relations[j].v))
              => TargetOf(Get(entities[i].v.relations, pre[i].v.relations[j].k))
                   \in KeySet(entities)

\* A map that holds a stub and an ingested entity whose display name is not
\* its key, after a validate pass that rewrote a target from that display name
\* to the key
C30_Witness ==
  /\ lastOp = "validate"
  /\ \E i \in 1..Len(entities) :
       /\ entities[i].v.chinese_name # entities[i].k
       /\ \E e \in Edges(entities) \ Edges(pre) : e[3] = entities[i].k
       /\ \E e \in Edges(pre) \ Edges(entities) : e[3] = entities[i].v.chinese_name
  /\ \E i \in 1..Len(entities) : entities[i].v.auto_created
=============================================================================
